---- MODULE Spec2Model ----
(***************************************************************************)
(* UxPlay: the AirPlay control/HLS protocol engine of lib/http_handlers.h. *)
(* The state is the raop_t server object as the handlers see it: the       *)
(* connection table of httpd, the airplay_video[] registry of playback     *)
(* sessions and current_video.  Every handler is one action; what a        *)
(* handler wrote to its response and which callbacks it invoked is kept in *)
(* the variable `last'.                                                    *)
(***************************************************************************)
EXTENDS Integers, Sequences, FiniteSets, TLC

(* ---- program constants (airplay_video.h is not among the sources) ---- *)
MAX_AIRPLAY_VIDEO == 3
MIN_STORED_AIRPLAY_VIDEO_DURATION_SECONDS == 90

(* ---- bounds of the model ---- *)
NumConns == 3
MaxReverseRequests == 6
NumUuids == 4
MaxUris == 2
MaxRequests == 5
MaxRegistryRequests == 8
MaxEvictionRequests == 11
MaxPlaybackRequests == 6
MaxStoreCalls == 5

VARIABLES conn_type, airplay_video, current_video, proc, last, nreq, distinct_plays,
          session, pair_last, digest, store, store_obs, pc,
          task, heap, mux

\* the server object of the HTTP handlers
raop_vars == <<conn_type, airplay_video, current_video, last, distinct_plays>>

\* the pairing session of a control connection and the last call made on it
pairing_vars == <<session, pair_last>>

\* a call of pairing_digest_verify: its arguments and its result
digest_vars == <<digest>>

\* the MediaDataStore object, what was seen of it, and where each thread
\* that uses it stands
store_vars == <<store, store_obs, pc>>

\* the handlers of http_handlers.h as tasks of their connections: where each
\* task stands, and which airplay_video structures were allocated and freed
task_vars == <<task, heap>>

\* the mux renderer of renderers/mux_renderer.c
mux_vars == <<mux>>

\* what the HTTP handlers of http_handlers.h never touch when each of them
\* runs from its first line to its return without another one in between
aux_vars == <<pairing_vars, digest_vars, store_vars, task_vars, mux_vars>>

vars == <<conn_type, airplay_video, current_video, proc, last, nreq, distinct_plays,
          aux_vars>>

Conns == 1..NumConns
Slots == 0..(MAX_AIRPLAY_VIDEO - 1)
Uuids == 1..NumUuids
SessionIds == {"S1", "S2"}
NULL == "NULL"
Durations == {MIN_STORED_AIRPLAY_VIDEO_DURATION_SECONDS - 1,
              MIN_STORED_AIRPLAY_VIDEO_DURATION_SECONDS}
StartPositions == {12}
\* an indeterminate float, left where memory was overwritten
GARBAGE == 0 - 1

(* ---- strings: a string is a sequence of tokens, so that strstr, the ---- *)
(* ---- prefix copy and strcat do work that a check can refute         ---- *)
MASTER == "/master.m3u8"
LocationX == <<"mlhls://host", "/x", MASTER>>
LocationQ == <<"mlhls://host", MASTER, "?t=1">>
LocationBad == <<"mlhls://host", "/x", "/index.m3u8">>

\* strstr(s, tok): index of the first occurrence, 0 for a NULL result
strstr(s, tok) ==
    IF \E i \in 1..Len(s) : s[i] = tok
    THEN CHOOSE i \in 1..Len(s) : s[i] = tok /\ \A j \in 1..(i - 1) : s[j] # tok
    ELSE 0

\* char local_uri_prefix[23] = "http://localhost:<port>"
LocalPrefix == <<"http://localhost:port">>

\* strcat(dst, "/master.m3u8") writes into dst
strcat(dst, tok) == Append(dst, tok)

(* ---- playlist texts carried by FCUP_Response_Data ---- *)
MasterText(n) == [kind |-> "master", n |-> n, dur |-> 0]
MediaText(d) == [kind |-> "media", n |-> 0, dur |-> d]
Texts == {MasterText(n) : n \in 0..MaxUris} \cup {MediaText(d) : d \in Durations}

\* create_media_uri_table: the number of media URIs a text lists
num_uri_of(text) == IF text.kind = "master" THEN text.n ELSE 0

\* a char *playlist that is NULL
NoPlaylist == [kind |-> "NULL"]

\* a media playlist in the condensed form of "#YT-EXT-CONDENSED-URL"
CondensedText(d) == [kind |-> "condensed", n |-> 0, dur |-> d]

\* analyze_media_playlist: total duration of the chunks of a text
analyze_media_playlist(text) ==
    IF text.kind \in {"media", "condensed"} THEN text.dur ELSE 0

\* adjust_yt_condensed_playlist: a new string, the playlist with every
\* condensed URI written out; a copy when the playlist is not condensed
adjust_yt_condensed_playlist(text) ==
    IF text.kind = "condensed" THEN [text EXCEPT !.kind = "media"] ELSE text

\* adjust_master_playlist: the master playlist with the uri prefix of the
\* sender replaced by the local prefix, of which the text keeps the part in
\* front of anything strcat has appended
adjust_master_playlist(text, uri_prefix, uri_local_prefix) ==
    [kind |-> text.kind, n |-> text.n, dur |-> text.dur,
     prefix |-> SubSeq(uri_local_prefix, 1, 1)]

\* get_media_uri_by_num
get_media_uri_by_num(av, i) == <<"media", ToString(i), ".m3u8">>

(* ---- airplay_video_t ---- *)
EmptyItem == [state |-> "empty", dur |-> 0, playlist |-> NoPlaylist]

NullVideo ==
    [live |-> FALSE, playback_uuid |-> 0, apple_session_id |-> "",
     start_position_seconds |-> 0, uri_prefix |-> <<>>,
     local_uri_prefix |-> <<>>, master_playlist |-> FALSE, num_uri |-> 0,
     media_data_store |-> <<>>, next_media_uri_id |-> 0,
     FCUP_RequestID |-> 0, duration |-> 0, plays |-> 0, start_stored |-> 0,
     born |-> 0, after_purge |-> FALSE, master_text |-> NoPlaylist]
\* history fields, not in the structure: plays counts the calls of on_video_play
\* for the session, start_stored is the start position /play stored, born
\* orders the live sessions by creation, after_purge tells that the /play that
\* created the session, or the one that created a session live at that time,
\* destroyed a short playlist

\* the greatest element of a set of naturals, 0 for the empty set
MaxOf(S) == IF S = {} THEN 0 ELSE CHOOSE m \in S : \A x \in S : x <= m

\* airplay_video_init: a zeroed structure with the local prefix filled in
airplay_video_init ==
    [NullVideo EXCEPT !.live = TRUE, !.local_uri_prefix = LocalPrefix]

get_duration(av) == av.duration

\* get_playlist_by_uuid: index of the session with this uuid, -1 if none
get_playlist_by_uuid(videos, uuid) ==
    IF \E i \in Slots : videos[i].live /\ videos[i].playback_uuid = uuid
    THEN CHOOSE i \in Slots : /\ videos[i].live
                              /\ videos[i].playback_uuid = uuid
                              /\ \A j \in Slots :
                                    (videos[j].live /\ videos[j].playback_uuid = uuid)
                                        => i <= j
    ELSE 0 - 1

\* httpd_count_connection_type
httpd_count_connection_type(types, t) == Cardinality({c \in Conns : types[c] = t})

(* ---- what a handler leaves behind: response and callbacks ---- *)
DEFAULT_STATUS == 200

NoOutput ==
    [status |-> DEFAULT_STATUS, upgrade |-> FALSE, disconnect |-> FALSE,
     conn_reset |-> FALSE, fcup |-> <<>>, play |-> <<>>,
     created |-> {}, destroyed |-> {}, store_idx |-> {},
     stop |-> 0, video_reset |-> <<>>, body |-> NoPlaylist, content_type |-> <<>>]

\* fcup_request(conn, url, session_id, request_id): one POST /event on the PTTH socket
fcup_request(url, sid, id) == [url |-> url, session_id |-> sid, request_id |-> id]

\* get_next_FCUP_RequestID
get_next_FCUP_RequestID(av) == av.FCUP_RequestID + 1

Outcome(videos, cur, p, out) ==
    [airplay_video |-> videos, current_video |-> cur, proc |-> p, out |-> out]

(***************************************************************************)
(* POST /reverse                                                           *)
(***************************************************************************)
\* http_handler_reverse: the connection table and the response it leaves
http_handler_reverse(types, c) ==
    LET set == [types EXCEPT ![c] = "PTTH"]
        type_PTTH == httpd_count_connection_type(set, "PTTH")
    IN  [conn_type |-> set,
         out |-> IF type_PTTH = 1
                 THEN [NoOutput EXCEPT !.status = 101, !.upgrade = TRUE]
                 ELSE NoOutput]

(***************************************************************************)
(* the play callback                                                       *)
(***************************************************************************)
\* on_video_play(cls, strcat(uri_local_prefix, "/master.m3u8"),
\*               get_start_position_seconds(airplay_video)).
\* strcat appends in place to the 23-byte local_uri_prefix of the structure;
\* the result never fits, so the bytes behind the array are overwritten: the
\* float behind it may or may not be hit, and the start argument is read
\* before or after the write (the order of evaluation is unspecified).
on_video_play(av) ==
    LET uri == strcat(av.local_uri_prefix, MASTER)
        s == av.start_position_seconds
    IN  { [call |-> [uuid |-> av.playback_uuid, uri |-> uri, start |-> p[1]],
           video |-> [av EXCEPT !.local_uri_prefix = uri,
                                !.start_position_seconds = p[2],
                                !.plays = @ + 1]]
          : p \in {<<s, s>>, <<s, GARBAGE>>, <<GARBAGE, GARBAGE>>} }

(***************************************************************************)
(* POST /action                                                            *)
(***************************************************************************)
\* mutant: the error path of /action closes the connection as that of /play does
post_action_error_teardown ==
    [NoOutput EXCEPT !.status = 400, !.disconnect = TRUE, !.conn_reset = TRUE]

post_action_error == [NoOutput EXCEPT !.status = 400]

\* goto post_action_error from a line after `char *type = NULL;`
ActionError(videos, cur) == {Outcome(videos, cur, "running", post_action_error)}

\* goto post_action_error from a line before `char *type = NULL;` (line 484):
\* plist_mem_free(type) is handed an indeterminate pointer
ActionErrorBeforeType(videos, cur) ==
    { Outcome(videos, cur, "running", post_action_error),
      Outcome(videos, cur, "crashed", [NoOutput EXCEPT !.status = 0]) }

\* store_media_playlist(airplay_video, playlist, &count, &duration, num)
store_media_playlist(av, playlist, duration, num) ==
    IF num < 0 \/ num >= av.num_uri
    THEN av
    ELSE IF \E j \in 1..Len(av.media_data_store) :
                /\ av.media_data_store[j].state = "stored"
                /\ av.media_data_store[j].dur = duration
         THEN [av EXCEPT !.media_data_store[num + 1] =
                            [state |-> "dup", dur |-> duration, playlist |-> @.playlist]]
         ELSE [av EXCEPT !.media_data_store[num + 1] =
                            [state |-> "stored", dur |-> duration, playlist |-> playlist],
                         !.duration = IF duration > @ THEN duration ELSE @]

\* lines 610-641: the playlist of an unhandledURLResponse is stored
ActionStore(av, req) ==
    IF req.url_is_master
    THEN [av EXCEPT !.master_playlist = TRUE,
                    !.master_text = adjust_master_playlist(req.data, av.uri_prefix,
                                                           av.local_uri_prefix),
                    !.num_uri = num_uri_of(req.data),
                    !.media_data_store = [i \in 1..num_uri_of(req.data) |-> EmptyItem],
                    !.next_media_uri_id = 0]
    ELSE store_media_playlist(av, req.data, analyze_media_playlist(req.data),
                              av.next_media_uri_id - 1)

\* mutant: the player is started one reply early (uri_num + 1 < num_uri)
ActionNextEarly(videos, cur, av, sid, idx) ==
    IF av.next_media_uri_id + 1 < av.num_uri
    THEN { Outcome([videos EXCEPT ![cur] =
                       [av EXCEPT !.FCUP_RequestID = get_next_FCUP_RequestID(av),
                                  !.next_media_uri_id = @ + 1]],
                   cur, "running",
                   [NoOutput EXCEPT
                       !.fcup = <<fcup_request(get_media_uri_by_num(av, av.next_media_uri_id),
                                               sid, get_next_FCUP_RequestID(av))>>,
                       !.store_idx = idx]) }
    ELSE { Outcome([videos EXCEPT ![cur] = o.video], cur, "running",
                   [NoOutput EXCEPT !.play = <<o.call>>, !.store_idx = idx])
           : o \in on_video_play(av) }

\* mutant: set_next_media_uri_id(airplay_video, ++uri_num) is forgotten
ActionNextNoAdvance(videos, cur, av, sid, idx) ==
    IF av.next_media_uri_id < av.num_uri
    THEN { Outcome([videos EXCEPT ![cur] =
                       [av EXCEPT !.FCUP_RequestID = get_next_FCUP_RequestID(av)]],
                   cur, "running",
                   [NoOutput EXCEPT
                       !.fcup = <<fcup_request(get_media_uri_by_num(av, av.next_media_uri_id),
                                               sid, get_next_FCUP_RequestID(av))>>,
                       !.store_idx = idx]) }
    ELSE { Outcome([videos EXCEPT ![cur] = o.video], cur, "running",
                   [NoOutput EXCEPT !.play = <<o.call>>, !.store_idx = idx])
           : o \in on_video_play(av) }

\* lines 645-657: request the next media playlist, or start the player
ActionNext(videos, cur, av, sid, idx) ==
    LET num_uri == av.num_uri
        uri_num == av.next_media_uri_id
    IN  IF uri_num < num_uri
        THEN { Outcome([videos EXCEPT ![cur] =
                           [av EXCEPT !.FCUP_RequestID = get_next_FCUP_RequestID(av),
                                      !.next_media_uri_id = uri_num + 1]],
                       cur, "running",
                       [NoOutput EXCEPT
                           !.fcup = <<fcup_request(get_media_uri_by_num(av, uri_num), sid,
                                                   get_next_FCUP_RequestID(av))>>,
                           !.store_idx = idx]) }
        ELSE { Outcome([videos EXCEPT ![cur] = o.video], cur, "running",
                       [NoOutput EXCEPT !.play = <<o.call>>, !.store_idx = idx])
               : o \in on_video_play(av) }

\* http_handler_action
http_handler_action(videos, cur, req) ==
    LET av == videos[cur]
    IN  IF req.session_id = NULL
        THEN ActionErrorBeforeType(videos, cur)
        ELSE IF ~av.live
        THEN \* get_apple_session_id dereferences a NULL airplay_video
             {Outcome(videos, cur, "crashed", [NoOutput EXCEPT !.status = 0])}
        ELSE IF req.session_id # av.apple_session_id
        THEN ActionErrorBeforeType(videos, cur)
        ELSE IF ~req.is_plist \/ ~req.has_data \/ req.type = NULL
        THEN ActionErrorBeforeType(videos, cur)
        ELSE IF req.type # "playlistInsert" /\ ~req.params_is_dict
        THEN ActionError(videos, cur)
        ELSE IF req.type = "playlistRemove"
        THEN IF ~req.item_is_dict
             THEN ActionError(videos, cur)
             ELSE {Outcome(videos, cur, "running", NoOutput)}
        ELSE IF req.type = "playlistInsert"
        THEN \* exit(0) after the request is printed
             {Outcome(videos, cur, "exited", [NoOutput EXCEPT !.status = 0])}
        ELSE IF req.type = "unhandledURLResponse"
        THEN IF ~req.has_url \/ ~req.has_response_data
             THEN ActionError(videos, cur)
             ELSE ActionNext(videos, cur, ActionStore(av, req), av.apple_session_id,
                             IF req.url_is_master THEN {} ELSE {av.next_media_uri_id - 1})
        ELSE {Outcome(videos, cur, "running", NoOutput)}

(***************************************************************************)
(* POST /play                                                              *)
(***************************************************************************)
\* play_error: 400, Connection: close and conn_reset(cls, 2)
play_error ==
    [NoOutput EXCEPT !.status = 400, !.disconnect = TRUE, !.conn_reset = TRUE]

\* mutant: the registry is not searched for the uuid
PlayLookupNone(videos, uuid) == 0 - 1

\* lines 737-739: is the playlist of this uuid already in the registry
PlayLookup(videos, uuid) == get_playlist_by_uuid(videos, uuid)

\* mutant: a playlist of exactly the minimum duration is destroyed as well
PlayShortInclusive(videos) ==
    {i \in Slots : /\ videos[i].live
                   /\ get_duration(videos[i])
                        <= MIN_STORED_AIRPLAY_VIDEO_DURATION_SECONDS}

\* lines 753-769: the slots the purge of short playlists destroys
PlayShort(videos) ==
    {i \in Slots : /\ videos[i].live
                   /\ get_duration(videos[i])
                        < MIN_STORED_AIRPLAY_VIDEO_DURATION_SECONDS}

\* lines 771-778: the first unused slot, -1 if there is none
PlayFreeSlot(videos) ==
    IF \E i \in Slots : ~videos[i].live
    THEN CHOOSE i \in Slots : ~videos[i].live /\ \A j \in 0..(i - 1) : videos[j].live
    ELSE 0 - 1

\* mutant: the slot just filled is the one destroyed
PlayEvictCurrent(id, count) ==
    IF count = MAX_AIRPLAY_VIDEO THEN {id} ELSE {}

\* mutant: the next slot is destroyed one playlist before the registry is full
PlayEvictEarly(id, count) ==
    IF count >= MAX_AIRPLAY_VIDEO - 1 THEN {(id + 1) % MAX_AIRPLAY_VIDEO} ELSE {}

\* mutant: the slot in front of the new one is destroyed
PlayEvictPrev(id, count) ==
    IF count = MAX_AIRPLAY_VIDEO
    THEN {(id + MAX_AIRPLAY_VIDEO - 1) % MAX_AIRPLAY_VIDEO}
    ELSE {}

\* mutant: a full registry is left as it is
PlayEvictNever(id, count) == {}

\* lines 798-808: the slots destroyed so that space stays available
PlayEvict(id, count) ==
    IF count = MAX_AIRPLAY_VIDEO THEN {(id + 1) % MAX_AIRPLAY_VIDEO} ELSE {}

\* mutant: prefix_len is one too long, "/master.m3u8" is copied as well
PlayPrefixThroughMaster(location) == SubSeq(location, 1, strstr(location, MASTER))

\* lines 847-856: the prefix of the Content-Location in front of "/master.m3u8"
PlayPrefix(location) == SubSeq(location, 1, strstr(location, MASTER) - 1)

\* lines 739-751: the playlist is known, the player is started on it
PlayReuse(videos, cur, id, req) ==
    { Outcome([videos EXCEPT ![id] = o.video], cur, "running",
              [NoOutput EXCEPT !.play = <<o.call>>])
      : o \in on_video_play([videos[id] EXCEPT !.apple_session_id = req.session_id]) }

\* lines 753-866: a new airplay_video is set up and its master playlist requested
PlayNew(videos, req) ==
    LET short == PlayShort(videos)
        purged == [i \in Slots |-> IF i \in short THEN NullVideo ELSE videos[i]]
        kept == Cardinality({i \in Slots : purged[i].live})
        id == PlayFreeSlot(purged)
    IN  IF id = 0 - 1
        THEN \* exit(1)
             {Outcome(purged, 0, "exited",
                      [NoOutput EXCEPT !.status = 0, !.destroyed = short])}
        ELSE
        LET older == {purged[i].born : i \in {j \in Slots : purged[j].live}}
            created == [purged EXCEPT
                           ![id] = [airplay_video_init EXCEPT
                                       !.playback_uuid = req.uuid,
                                       !.born = 1 + MaxOf(older),
                                       !.after_purge =
                                           \/ short # {}
                                           \/ \E i \in Slots : /\ purged[i].live
                                                                /\ purged[i].after_purge]]
            count == kept + 1
            evict == PlayEvict(id, count)
            evicted == [i \in Slots |-> IF i \in evict THEN NullVideo ELSE created[i]]
            \* set_apple_session_id writes through the pointer to the new structure
            withsid == [evicted EXCEPT ![id].apple_session_id =
                            IF evicted[id].live THEN req.session_id ELSE @]
            base == [NoOutput EXCEPT !.created = {id},
                                     !.destroyed = short \cup evict]
            err == [base EXCEPT !.status = 400, !.disconnect = TRUE,
                                !.conn_reset = TRUE]
        IN  IF ~req.has_location \/ ~req.has_proc_name
            THEN {Outcome(withsid, id, "running", err)}
            ELSE
            LET start_position_seconds == IF req.has_start THEN req.start ELSE 0
                started == [withsid EXCEPT
                               ![id].start_position_seconds = start_position_seconds,
                               ![id].start_stored = start_position_seconds]
            IN  IF strstr(req.location, MASTER) = 0
                THEN {Outcome(started, id, "running", err)}
                ELSE
                LET av == [started[id] EXCEPT !.uri_prefix = PlayPrefix(req.location),
                                              !.next_media_uri_id = 0]
                IN  {Outcome([started EXCEPT ![id] =
                                 [av EXCEPT !.FCUP_RequestID = get_next_FCUP_RequestID(av)]],
                             id, "running",
                             [base EXCEPT !.fcup =
                                 <<fcup_request(req.location, req.session_id,
                                                get_next_FCUP_RequestID(av))>>])}

\* http_handler_play
http_handler_play(videos, cur, req) ==
    IF req.session_id = NULL \/ ~req.is_binary_plist \/ ~req.has_uuid
    THEN {Outcome(videos, cur, "running", play_error)}
    ELSE IF PlayLookup(videos, req.uuid) >= 0
         THEN PlayReuse(videos, cur, PlayLookup(videos, req.uuid), req)
         ELSE PlayNew(videos, req)

(***************************************************************************)
(* POST /stop                                                              *)
(***************************************************************************)
\* mutant: the session that was playing is destroyed
http_handler_stop_destroy(videos, cur) ==
    {Outcome([videos EXCEPT ![cur] = NullVideo], cur, "running",
             [NoOutput EXCEPT !.stop = 1, !.destroyed = {cur}])}

\* http_handler_stop: callbacks.on_video_stop(cls) and nothing else
http_handler_stop(videos, cur) ==
    {Outcome(videos, cur, "running", [NoOutput EXCEPT !.stop = 1])}

(***************************************************************************)
(* GET /playback-info                                                      *)
(***************************************************************************)
\* mutant: start and duration of a range change places
time_range_to_plist_swapped(time_ranges, n_time_ranges) ==
    [i \in 1..n_time_ranges |->
        [duration |-> time_ranges[i].start, start |-> time_ranges[i].duration]]

\* time_range_to_plist: one dict {duration, start} per range
time_range_to_plist(time_ranges, n_time_ranges) ==
    [i \in 1..n_time_ranges |->
        [duration |-> time_ranges[i].duration, start |-> time_ranges[i].start]]

\* create_playback_info_plist_xml: the keys the claims are about
create_playback_info_plist_xml(playback_info) ==
    [duration |-> playback_info.duration,
     position |-> playback_info.position,
     loadedTimeRanges |->
         time_range_to_plist(playback_info.loadedTimeRanges,
                             playback_info.num_loaded_time_ranges),
     seekableTimeRanges |->
         time_range_to_plist(playback_info.seekableTimeRanges,
                             playback_info.num_seekable_time_ranges)]

\* mutant: the position is looked at before the duration
http_handler_playback_info_position_first(info) ==
    IF info.position = 0 - 1
    THEN NoOutput
    ELSE IF info.duration = 0 - 1
    THEN [NoOutput EXCEPT !.disconnect = TRUE, !.video_reset = <<TRUE>>]
    ELSE [NoOutput EXCEPT
             !.body = create_playback_info_plist_xml(
                        [duration |-> info.duration, position |-> info.position,
                         num_loaded_time_ranges |-> 1,
                         loadedTimeRanges |->
                             <<[start |-> info.position,
                                duration |-> info.duration - info.position]>>,
                         num_seekable_time_ranges |-> 1,
                         seekableTimeRanges |->
                             <<[start |-> 0, duration |-> info.position]>>]),
             !.content_type = <<"text/x-apple-plist+xml">>]

\* http_handler_playback_info; info is what on_video_acquire_playback_info
\* wrote into playback_info
http_handler_playback_info(info) ==
    IF info.duration = 0 - 1
    THEN \* video has finished, reset
         [NoOutput EXCEPT !.disconnect = TRUE, !.video_reset = <<TRUE>>]
    ELSE IF info.position = 0 - 1
    THEN NoOutput
    ELSE [NoOutput EXCEPT
             !.body = create_playback_info_plist_xml(
                        [duration |-> info.duration, position |-> info.position,
                         num_loaded_time_ranges |-> 1,
                         loadedTimeRanges |->
                             <<[start |-> info.position,
                                duration |-> info.duration - info.position]>>,
                         num_seekable_time_ranges |-> 1,
                         seekableTimeRanges |->
                             <<[start |-> 0, duration |-> info.position]>>]),
             !.content_type = <<"text/x-apple-plist+xml">>]

(***************************************************************************)
(* GET /[uri] on the HLS channel                                           *)
(***************************************************************************)
get_master_playlist(av) == av.master_text

\* get_media_playlist(airplay_video, &chunks, &duration, url): the playlist
\* stored for the url; a duplicate is found where it was stored first
get_media_playlist(av, url) ==
    LET hit == {k \in 1..av.num_uri : get_media_uri_by_num(av, k - 1) = url}
    IN  IF hit = {}
        THEN NoPlaylist
        ELSE LET item == av.media_data_store[CHOOSE k \in hit : TRUE]
                 same == {j \in 1..av.num_uri :
                             /\ av.media_data_store[j].playlist # NoPlaylist
                             /\ av.media_data_store[j].dur = item.dur}
             IN  IF item.playlist # NoPlaylist
                 THEN item.playlist
                 ELSE IF item.state = "dup" /\ same # {}
                 THEN av.media_data_store[CHOOSE j \in same : TRUE].playlist
                 ELSE NoPlaylist

\* mutant: the stored media playlist is sent as it is
HlsBodyAsStored(media_playlist) == media_playlist

\* lines 923-926: the body made of a stored media playlist
HlsBody(media_playlist) == adjust_yt_condensed_playlist(media_playlist)

\* http_handler_hls
http_handler_hls(videos, cur, req) ==
    LET av == videos[cur]
        found == [NoOutput EXCEPT
                     !.content_type = <<"application/x-mpegURL", "; charset=utf-8">>]
        not_found == [NoOutput EXCEPT !.status = 404]
    IN  IF req.upgrade
        THEN {Outcome(videos, cur, "running", NoOutput)}
        ELSE IF ~av.live
        THEN \* the getters dereference a NULL airplay_video
             {Outcome(videos, cur, "crashed", [NoOutput EXCEPT !.status = 0])}
        ELSE IF req.url = <<MASTER>>
        THEN IF get_master_playlist(av) # NoPlaylist
             THEN {Outcome(videos, cur, "running",
                           [found EXCEPT !.body = get_master_playlist(av)])}
             ELSE {Outcome(videos, cur, "running", not_found)}
        ELSE IF get_media_playlist(av, req.url) # NoPlaylist
             THEN {Outcome(videos, cur, "running",
                           [found EXCEPT !.body = HlsBody(get_media_playlist(av, req.url))])}
             ELSE {Outcome(videos, cur, "running", not_found)}

(***************************************************************************)
(* the requests a sender may send                                          *)
(***************************************************************************)
PlayRequest(sid, uuid, loc, has_start) ==
    [session_id |-> sid, is_binary_plist |-> TRUE, has_uuid |-> TRUE, uuid |-> uuid,
     has_location |-> TRUE, location |-> loc, has_proc_name |-> TRUE,
     has_start |-> has_start, start |-> CHOOSE p \in StartPositions : TRUE]

WellFormedPlay ==
    {PlayRequest(sid, uuid, LocationX, TRUE) : sid \in SessionIds, uuid \in 1..2}
    \cup {PlayRequest("S1", 1, LocationQ, TRUE), PlayRequest("S1", 1, LocationX, FALSE)}

MalformedPlay ==
    LET r == PlayRequest("S1", 1, LocationX, TRUE)
    IN  { [r EXCEPT !.session_id = NULL], [r EXCEPT !.is_binary_plist = FALSE],
          [r EXCEPT !.has_uuid = FALSE], [r EXCEPT !.has_location = FALSE],
          [r EXCEPT !.has_proc_name = FALSE], [r EXCEPT !.location = LocationBad] }

PlayRequests == WellFormedPlay \cup MalformedPlay

ActionRequest(sid, is_master, text) ==
    [session_id |-> sid, is_plist |-> TRUE, has_data |-> TRUE,
     type |-> "unhandledURLResponse", params_is_dict |-> TRUE, item_is_dict |-> FALSE,
     has_url |-> TRUE, url_is_master |-> is_master, has_response_data |-> TRUE,
     data |-> text]

WellFormedAction ==
    {ActionRequest(sid, text.kind = "master", text) : sid \in SessionIds, text \in Texts}
    \cup {ActionRequest(sid, FALSE, MasterText(1)) : sid \in SessionIds}

MalformedAction ==
    LET r == ActionRequest("S1", TRUE, MasterText(1))
    IN  { [r EXCEPT !.session_id = NULL], [r EXCEPT !.is_plist = FALSE],
          [r EXCEPT !.has_data = FALSE], [r EXCEPT !.type = NULL],
          [r EXCEPT !.params_is_dict = FALSE],
          [r EXCEPT !.type = "playlistRemove"],
          [r EXCEPT !.type = "playlistRemove", !.item_is_dict = TRUE],
          [r EXCEPT !.type = "playlistInsert"],
          [r EXCEPT !.type = "other"],
          [r EXCEPT !.has_url = FALSE], [r EXCEPT !.has_response_data = FALSE] }

ActionRequests == WellFormedAction \cup MalformedAction

(***************************************************************************)
(* the state machine                                                       *)
(***************************************************************************)
\* history, kept by SpecRegistry: the uuids of the /play requests so far, while
\* all of them were well-formed and pairwise distinct; <<0>> otherwise
WellFormed(req) ==
    /\ req.session_id # NULL /\ req.is_binary_plist /\ req.has_uuid
    /\ req.has_location /\ req.has_proc_name
    /\ \E i \in 1..Len(req.location) : req.location[i] = MASTER

LogPlay(log, req) ==
    IF /\ WellFormed(req)
       /\ log # <<0>>
       /\ \A i \in 1..Len(log) : log[i] # req.uuid
    THEN Append(log, req.uuid)
    ELSE <<0>>

(***************************************************************************)
(* lib/pairing.c: the pairing session of one control connection.  The      *)
(* cryptographic primitives are outside the sources; each is modelled by   *)
(* what it computes: X25519 as exponentiation in a group small enough to   *)
(* enumerate, a hash as a constructor of its inputs, a signature as the    *)
(* pair of signer and message, a cipher text as the plain text sealed      *)
(* under key, iv and stream offset.                                        *)
(***************************************************************************)
X25519_KEY_SIZE == 32
ED25519_KEY_SIZE == 32
PAIRING_SIG_SIZE == 2 * X25519_KEY_SIZE
AES_128_BLOCK_SIZE == 16
SRP_USERNAME_SIZE == 255
X25519_P == 11
X25519_BASE == 2
SALT_KEY == "Pair-Verify-AES-Key"
SALT_IV == "Pair-Verify-AES-IV"

\* x25519_key_generate draws a private key; the client has its own
ServerEcdhPrivate == {1, 2}
ClientEcdhPrivate == {3, 4}

x25519_key_get_raw(private) == (X25519_BASE ^ private) % X25519_P

x25519_derive_secret(ours, theirs) == (theirs ^ ours) % X25519_P

ClientEcdhKeys == {x25519_key_get_raw(k) : k \in ClientEcdhPrivate}

\* Ed25519 identities of clients
ClientEdKeys == {"edA", "edB"}

ed25519_sign(msg, key) == [signer |-> key, msg |-> msg]

ed25519_verify(sig, msg, key) == sig.signer = key /\ sig.msg = msg

\* what decryption yields when key, iv or stream position are not the ones
\* the signature was encrypted with
GarbageSig == [signer |-> "garbage", msg |-> <<>>]

sha_final(salt, data) == <<"SHA512", salt, data>>

derive_key_internal(s, salt) == sha_final(salt, s.ecdh_secret)

\* AES-CTR is a stream cipher: a text decrypts under the key, the iv and the
\* position of the stream it was encrypted at
aes_ctr_encrypt(key, iv, off, data) == [key |-> key, iv |-> iv, off |-> off, data |-> data]

aes_ctr_decrypt(key, iv, off, text) ==
    IF text.key = key /\ text.iv = iv /\ text.off = off THEN text.data ELSE GarbageSig

\* session->srp == NULL
NoSrp == [kind |-> "NULL"]

\* pairing_session_init: calloc, status = STATUS_INITIAL, srp = NULL,
\* pair_setup = false.  srp_allocated counts the srp_t blocks that were
\* allocated for the session and are not freed.
InitialSession ==
    [status |-> "INITIAL", ed_theirs |-> NULL, ecdh_ours |-> 0, ecdh_theirs |-> 0,
     ecdh_secret |-> 0, username |-> <<>>, client_pk |-> NULL, pair_setup |-> FALSE,
     srp |-> NoSrp, srp_allocated |-> 0]

\* the result of a call: the session, the return value, what was written to
\* the caller's buffers, and whether the process survived
PairingResult(s, ret, out) == [session |-> s, ret |-> ret, out |-> out, alive |-> TRUE]

PairingCrash(s) == [session |-> s, ret |-> 0, out |-> <<>>, alive |-> FALSE]

pairing_get_ecdh_secret_key(s) ==
    IF s.status = "INITIAL"
    THEN PairingResult(s, 0, <<>>)
    ELSE PairingResult(s, 1, <<s.ecdh_secret>>)

pairing_session_set_setup_status(s) ==
    PairingResult([s EXCEPT !.status = "SETUP"], 0, <<>>)

pairing_session_check_handshake_status(s) ==
    IF s.status \in {"SETUP", "HANDSHAKE"}
    THEN PairingResult(s, 0, <<>>)
    ELSE PairingResult(s, 0 - 1, <<>>)

\* mutant: a handshake is accepted in every status
pairing_session_handshake_any_status(s, ecdh_key, ed_key, generated) ==
    PairingResult([s EXCEPT !.ecdh_theirs = ecdh_key,
                            !.ed_theirs = ed_key,
                            !.ecdh_ours = generated,
                            !.ecdh_secret = x25519_derive_secret(generated, ecdh_key),
                            !.status = "HANDSHAKE"],
                  0, <<>>)

\* generated: the private key x25519_key_generate draws
pairing_session_handshake(s, ecdh_key, ed_key, generated) ==
    IF s.status = "FINISHED"
    THEN PairingResult(s, 0 - 1, <<>>)
    ELSE PairingResult([s EXCEPT !.ecdh_theirs = ecdh_key,
                                 !.ed_theirs = ed_key,
                                 !.ecdh_ours = generated,
                                 !.ecdh_secret = x25519_derive_secret(generated, ecdh_key),
                                 !.status = "HANDSHAKE"],
                       0, <<>>)

pairing_session_get_public_key(s) ==
    IF s.status # "HANDSHAKE"
    THEN PairingResult(s, 0 - 1, <<>>)
    ELSE PairingResult(s, 0, <<x25519_key_get_raw(s.ecdh_ours)>>)

\* the Ed25519 identity of the server (session->ed_ours)
EdOurs == "edServer"

\* aes_ctr_init starts the key stream at 0; an encryption of n bytes leaves
\* the stream n bytes further
aes_ctr_stream_after(text, n) == text.off + n

\* the signature over (server key || client key), encrypted with the first
\* PAIRING_SIG_SIZE bytes of the key stream
pairing_session_get_signature(s) ==
    IF s.status # "HANDSHAKE"
    THEN PairingResult(s, 0 - 1, <<>>)
    ELSE LET sig_msg == <<x25519_key_get_raw(s.ecdh_ours), s.ecdh_theirs>>
             signature == ed25519_sign(sig_msg, EdOurs)
             key == derive_key_internal(s, SALT_KEY)
             iv == derive_key_internal(s, SALT_IV)
         IN  PairingResult(s, 0, <<aes_ctr_encrypt(key, iv, 0, signature)>>)

\* mutant: the signature is decrypted with the start of the key stream
pairing_session_finish_no_fake_round(s, signature) ==
    IF s.status # "HANDSHAKE"
    THEN PairingResult(s, 0 - 1, <<>>)
    ELSE LET key == derive_key_internal(s, SALT_KEY)
             iv == derive_key_internal(s, SALT_IV)
             sig_buffer == aes_ctr_decrypt(key, iv, 0, signature)
             sig_msg == <<s.ecdh_theirs, x25519_key_get_raw(s.ecdh_ours)>>
         IN  IF ~ed25519_verify(sig_buffer, sig_msg, s.ed_theirs)
             THEN PairingResult(s, 0 - 2, <<>>)
             ELSE PairingResult([s EXCEPT !.status = "FINISHED"], 0, <<>>)

\* accepts whatever the client sent once the session is in Handshake
pairing_session_finish_unverified(s, signature) ==
    IF s.status # "HANDSHAKE"
    THEN PairingResult(s, 0 - 1, <<>>)
    ELSE PairingResult([s EXCEPT !.status = "FINISHED"], 0, <<>>)

\* one round of PAIRING_SIG_SIZE bytes of the stream is spent on sig_buffer
\* before the signature is decrypted
pairing_session_finish(s, signature) ==
    IF s.status # "HANDSHAKE"
    THEN PairingResult(s, 0 - 1, <<>>)
    ELSE LET key == derive_key_internal(s, SALT_KEY)
             iv == derive_key_internal(s, SALT_IV)
             fake == aes_ctr_encrypt(key, iv, 0, GarbageSig)
             sig_buffer == aes_ctr_decrypt(key, iv,
                                           aes_ctr_stream_after(fake, PAIRING_SIG_SIZE),
                                           signature)
             sig_msg == <<s.ecdh_theirs, x25519_key_get_raw(s.ecdh_ours)>>
         IN  IF ~ed25519_verify(sig_buffer, sig_msg, s.ed_theirs)
             THEN PairingResult(s, 0 - 2, <<>>)
             ELSE PairingResult([s EXCEPT !.status = "FINISHED"], 0, <<>>)

(* ---- pair-setup: SRP-6a ---- *)
SRP_SESSION_KEY_SIZE == 64

\* the PIN the server displays and the PINs a client may try
ServerPin == "1234"
ClientPins == {"1234", "0000"}

\* device ids: the text and its strlen
DeviceIds == {[name |-> <<"dev">>, len |-> 17],
              [name |-> <<"long">>, len |-> SRP_USERNAME_SIZE + 1]}

\* the session key of a calloc'ed srp_t: all bytes zero
ZeroSessionKey == <<>>

srp_create_salted_verification_key(username, pin) ==
    [salt |-> "s", verifier |-> [user |-> username, pin |-> pin, salt |-> "s"]]

srp_create_server_ephemeral_key(verifier, b) == <<"B", verifier, b>>

\* the client's proof M1 is computed from the username, the PIN the client
\* holds, the salt and the ephemeral keys
ClientProof(username, pin, A) == [user |-> username, pin |-> pin, A |-> A]

srp_verifier_is_authenticated(username, verifier, A, proof) ==
    proof = ClientProof(username, verifier.pin, A) /\ verifier.user = username

\* K, as both sides compute it, and its length
srp_verifier_get_session_key(verifier, A, b) ==
    [key |-> <<"K", verifier, A, b>>, len |-> SRP_SESSION_KEY_SIZE]

\* keeps the srp_t of an earlier pair-setup allocated
srp_new_user_accumulate(s, device_id, pin, b) ==
    IF device_id.len > SRP_USERNAME_SIZE
    THEN PairingResult(s, 0 - 1, <<>>)
    ELSE LET sv == srp_create_salted_verification_key(device_id.name, pin)
             srp == [kind |-> "srp", salt |-> sv.salt, verifier |-> sv.verifier,
                     session_key |-> ZeroSessionKey, private_key |-> b]
         IN  PairingResult([s EXCEPT !.username = device_id.name,
                                     !.srp = srp,
                                     !.srp_allocated = @ + 1],
                           0, <<sv.salt, srp_create_server_ephemeral_key(sv.verifier, b)>>)

\* b: the private key get_random_bytes draws
srp_new_user(s, device_id, pin, b) ==
    IF device_id.len > SRP_USERNAME_SIZE
    THEN PairingResult(s, 0 - 1, <<>>)
    ELSE LET freed == IF s.srp # NoSrp THEN s.srp_allocated - 1 ELSE s.srp_allocated
             sv == srp_create_salted_verification_key(device_id.name, pin)
             srp == [kind |-> "srp", salt |-> sv.salt, verifier |-> sv.verifier,
                     session_key |-> ZeroSessionKey, private_key |-> b]
         IN  PairingResult([s EXCEPT !.username = device_id.name,
                                     !.srp = srp,
                                     !.srp_allocated = freed + 1],
                           0, <<sv.salt, srp_create_server_ephemeral_key(sv.verifier, b)>>)

\* a failed proof leaves the SRP state in place
srp_validate_proof_keep(s, A, proof) ==
    IF s.srp = NoSrp
    THEN PairingCrash(s)
    ELSE LET K == srp_verifier_get_session_key(s.srp.verifier, A, s.srp.private_key)
         IN  IF ~srp_verifier_is_authenticated(s.username, s.srp.verifier, A, proof)
             THEN PairingResult(s, 0 - 1, <<>>)
             ELSE PairingResult([s EXCEPT !.srp.session_key = K.key], 0, <<"M2">>)

\* session->srp is dereferenced without a test: with srp == NULL the reads
\* of the library fault
srp_validate_proof(s, A, proof) ==
    IF s.srp = NoSrp
    THEN PairingCrash(s)
    ELSE LET K == srp_verifier_get_session_key(s.srp.verifier, A, s.srp.private_key)
         IN  IF ~srp_verifier_is_authenticated(s.username, s.srp.verifier, A, proof)
             THEN PairingResult([s EXCEPT !.srp = NoSrp,
                                          !.srp_allocated = @ - 1],
                                0 - 1, <<>>)
             ELSE IF K.len # SRP_SESSION_KEY_SIZE
             THEN PairingResult(s, 0 - 2, <<>>)
             ELSE PairingResult([s EXCEPT !.srp.session_key = K.key], 0, <<"M2">>)

\* AES-128-GCM: a text sealed under key and iv, and the tag over it
gcm_encrypt(data, key, iv) ==
    [epk |-> [key |-> key, iv |-> iv, data |-> data],
     auth_tag |-> [key |-> key, iv |-> iv, data |-> data]]

\* the length of the plain text, or -1 when the tag does not authenticate
gcm_decrypt(epk, key, iv, auth_tag) ==
    IF epk.key = key /\ epk.iv = iv /\ auth_tag = epk
    THEN [len |-> ED25519_KEY_SIZE, data |-> epk.data]
    ELSE [len |-> 0 - 1, data |-> NULL]

\* the key and the iv of pair-setup; n counts the increments of aesIV[15]
PairSetupKey(session_key) == sha_final("Pair-Setup-AES-Key", session_key)

PairSetupIV(session_key, n) == <<sha_final("Pair-Setup-AES-IV", session_key), n>>

\* session->srp->session_key is read without a test of session->srp
srp_confirm_pair_setup(s, epk, auth_tag, server_pk) ==
    IF s.srp = NoSrp
    THEN PairingCrash(s)
    ELSE LET aesKey == PairSetupKey(s.srp.session_key)
             aesIV == PairSetupIV(s.srp.session_key, 1)
             freed == [s EXCEPT !.srp = NoSrp, !.srp_allocated = @ - 1]
             pk == gcm_decrypt(epk, aesKey, aesIV, auth_tag)
         IN  IF pk.len <= 0
             THEN PairingResult(freed, pk.len, <<>>)
             ELSE PairingResult([freed EXCEPT !.client_pk = pk.data,
                                              !.pair_setup = TRUE],
                                ED25519_KEY_SIZE,
                                <<gcm_encrypt(server_pk, aesKey,
                                              PairSetupIV(s.srp.session_key, 2))>>)

\* the state of the variables of the pairing session while it is not used
NoPairingCall == [op |-> "none", ret |-> 0, out |-> <<>>, pre |-> InitialSession,
                  arg |-> <<>>]

PairingIdle ==
    /\ session = InitialSession
    /\ pair_last = NoPairingCall

(***************************************************************************)
(* lib/pairing.c: HTTP Digest verification.  A string is the sequence of   *)
(* its characters, so that strstr and strchr search as the code does.  MD5 *)
(* is outside the sources: the digest of a text is the text between two    *)
(* marks that occur in no input.                                           *)
(***************************************************************************)
S_username == <<"u", "s", "e", "r", "n", "a", "m", "e">>
S_realm == <<"r", "e", "a", "l", "m">>
S_nonce == <<"n", "o", "n", "c", "e">>
S_uri == <<"u", "r", "i">>
S_qop == <<"q", "o", "p">>
S_nc == <<"n", "c">>
S_cnonce == <<"c", "n", "o", "n", "c", "e">>
S_response == <<"r", "e", "s", "p", "o", "n", "s", "e">>
S_Digest == <<"D", "i", "g", "e", "s", "t", " ">>
QUOTE == "\""

get_md5(raw) == <<"md5(">> \o raw \o <<")">>

\* strncat(dst, src, n): at most n characters of src are appended
strncat(dst, source, n) ==
    dst \o SubSeq(source, 1, IF n < Len(source) THEN (IF n < 0 THEN 0 ELSE n) ELSE Len(source))

\* strstr(ptr, pat) on the characters from position ptr: the position of the
\* first occurrence, 0 for NULL
strstr_from(s, ptr, pat) ==
    LET hits == {i \in ptr..(Len(s) - Len(pat) + 1) : SubSeq(s, i, i + Len(pat) - 1) = pat}
    IN  IF hits = {} THEN 0 ELSE CHOOSE i \in hits : \A j \in hits : i <= j

\* strchr(ptr, ch)
strchr_from(s, ptr, ch) ==
    LET hits == {i \in ptr..Len(s) : s[i] = ch}
    IN  IF hits = {} THEN 0 ELSE CHOOSE i \in hits : \A j \in hits : i <= j

\* get_token: the token, and the cursor, which moves only when one is found
get_token(s, cursor, token_name, start_char, end_char) ==
    LET none == [found |-> FALSE, token |-> <<>>, cursor |-> cursor]
        p1 == strstr_from(s, cursor, token_name)
        p2 == strchr_from(s, p1 + Len(token_name), start_char)
        p3 == strchr_from(s, p2 + 1, end_char)
    IN  IF p1 = 0 THEN none
        ELSE IF p2 = 0 THEN none
        ELSE IF p3 = 0 THEN none
        ELSE [found |-> TRUE, token |-> SubSeq(s, p2 + 1, p3 - 1), cursor |-> p3 + 1]

\* the three digests; len is the size of the buffer calloc'ed for raw
DigestH1(username, realm, pwd) ==
    LET len == Len(username) + Len(realm) + Len(pwd) + 3
        r1 == strncat(<<>>, username, len - 1)
        r2 == strncat(r1, <<":">>, len - Len(r1) - 1)
        r3 == strncat(r2, realm, len - Len(r2) - 1)
        r4 == strncat(r3, <<":">>, len - Len(r3) - 1)
        r5 == strncat(r4, pwd, len - Len(r4) - 1)
    IN  get_md5(r5)

DigestH2(mthd, uri) ==
    LET len == Len(mthd) + Len(uri) + 2
        r1 == strncat(<<>>, mthd, len - 1)
        r2 == strncat(r1, <<":">>, len - Len(r1) - 1)
        r3 == strncat(r2, uri, len - Len(r2) - 1)
    IN  get_md5(r3)

DigestResult(hash1, nonce, has_qop, nc, cnonce, qop, hash2) ==
    LET len == Len(hash1) + Len(nonce) + Len(hash2) + 3
               + (IF has_qop THEN Len(nc) + Len(cnonce) + Len(qop) + 3 ELSE 0)
        r1 == strncat(<<>>, hash1, len - 1)
        r2 == strncat(r1, <<":">>, len - Len(r1) - 1)
        r3 == strncat(r2, nonce, len - Len(r2) - 1)
        r4 == strncat(r3, <<":">>, len - Len(r3) - 1)
        q1 == strncat(r4, nc, len - Len(r4) - 1)
        q2 == strncat(q1, <<":">>, len - Len(q1) - 1)
        q3 == strncat(q2, cnonce, len - Len(q2) - 1)
        q4 == strncat(q3, <<":">>, len - Len(q3) - 1)
        q5 == strncat(q4, qop, len - Len(q4) - 1)
        q6 == strncat(q5, <<":">>, len - Len(q5) - 1)
        r5 == IF has_qop THEN q6 ELSE r4
    IN  get_md5(strncat(r5, hash2, len - Len(r5) - 1))

\* the result: "true" or "false" as returned, or "crashed" where strlen or
\* strcmp is handed the NULL of a token that was not found
pairing_digest_verify(method, authorization, password) ==
    LET s == authorization
        username == get_token(s, 1, S_username, QUOTE, QUOTE)
        realm == get_token(s, username.cursor, S_realm, QUOTE, QUOTE)
        nonce == get_token(s, realm.cursor, S_nonce, QUOTE, QUOTE)
        uri == get_token(s, nonce.cursor, S_uri, QUOTE, QUOTE)
        qop == get_token(s, uri.cursor, S_qop, "=", ",")
        nc == get_token(s, qop.cursor, S_nc, "=", ",")
        cnonce == get_token(s, nc.cursor, S_cnonce, QUOTE, QUOTE)
        response == get_token(s, IF qop.found THEN cnonce.cursor ELSE qop.cursor,
                              S_response, QUOTE, QUOTE)
    IN  IF ~username.found \/ ~realm.found THEN [result |-> "crashed"]
        ELSE IF ~uri.found THEN [result |-> "crashed"]
        ELSE IF ~nonce.found THEN [result |-> "crashed"]
        ELSE IF qop.found /\ (~nc.found \/ ~cnonce.found) THEN [result |-> "crashed"]
        ELSE IF ~response.found THEN [result |-> "crashed"]
        ELSE LET hash1 == DigestH1(username.token, realm.token, password)
                 hash2 == DigestH2(method, uri.token)
                 result == DigestResult(hash1, nonce.token, qop.found, nc.token,
                                        cnonce.token, qop.token, hash2)
             IN  [result |-> IF result = response.token THEN "true" ELSE "false"]

\* the Authorization headers of clients: the parameters of RFC 2617 in the
\* order of the code's own test vector, in the order with cnonce and nc
\* before qop, with cnonce before nc, and without qop
OrderCanonical == <<"username", "realm", "nonce", "uri", "qop", "nc", "cnonce", "response">>
OrderQopLast == <<"username", "realm", "nonce", "uri", "cnonce", "nc", "qop", "response">>
OrderCnonceFirst == <<"username", "realm", "nonce", "uri", "qop", "cnonce", "nc", "response">>
OrderLegacy == <<"username", "realm", "nonce", "uri", "response">>
DigestOrders == {OrderCanonical, OrderQopLast, OrderCnonceFirst, OrderLegacy}

ParamName(name) ==
    CASE name = "username" -> S_username
      [] name = "realm" -> S_realm
      [] name = "nonce" -> S_nonce
      [] name = "uri" -> S_uri
      [] name = "qop" -> S_qop
      [] name = "nc" -> S_nc
      [] name = "cnonce" -> S_cnonce
      [] name = "response" -> S_response

\* qop and nc are sent without quotes
Param(name, fields) ==
    IF name \in {"qop", "nc"}
    THEN ParamName(name) \o <<"=">> \o fields[name]
    ELSE ParamName(name) \o <<"=", QUOTE>> \o fields[name] \o <<QUOTE>>

RECURSIVE Params(_, _)
Params(order, fields) ==
    IF Len(order) = 1
    THEN Param(order[1], fields)
    ELSE Param(order[1], fields) \o <<",">> \o Params(Tail(order), fields)

Authorization(order, fields) == S_Digest \o Params(order, fields)

HasQop(order) == \E i \in 1..Len(order) : order[i] = "qop"

\* RFC 2617, 3.2.2: the response a client computes from the password it holds
ClientResponse(f, has_qop, method, pwd) ==
    LET A1 == f.username \o <<":">> \o f.realm \o <<":">> \o pwd
        A2 == method \o <<":">> \o f.uri
        middle == IF has_qop
                  THEN f.nonce \o <<":">> \o f.nc \o <<":">> \o f.cnonce \o <<":">> \o f.qop
                  ELSE f.nonce
    IN  get_md5(get_md5(A1) \o <<":">> \o middle \o <<":">> \o get_md5(A2))

Password == <<"p", "w">>
ClientPasswords == {Password, <<"x">>}
Methods == {<<"G", "E", "T">>, <<"P", "O", "S", "T">>}
Nonces == {<<"9">>, <<"7", "7">>}

DigestFields(nonce, cnonce) ==
    [username |-> <<"M">>, realm |-> <<"t", "@", "h">>, nonce |-> nonce, uri |-> <<"/", "d">>,
     qop |-> <<"a", "u", "t", "h">>, nc |-> <<"0", "1">>, cnonce |-> cnonce,
     response |-> <<>>]

DigestInputs ==
    {LET f == DigestFields(nonce, cnonce)
     IN  [method |-> method, password |-> Password, order |-> order,
          fields |-> [f EXCEPT !.response = ClientResponse(f, HasQop(order), method, pwd)],
          result |-> "pending"] :
        method \in Methods, order \in DigestOrders, pwd \in ClientPasswords,
        nonce \in Nonces, cnonce \in Nonces}

DigestIdle == digest = [result |-> "idle"]

(***************************************************************************)
(* lib/media_data_store/MediaDataStore.cpp: the playlist store.  A URI is  *)
(* the sequence of its parts (scheme, host, path); a playlist text is the  *)
(* record of what the parser and the adjusting regular expressions see of  *)
(* it.  media_data_ is a std::map: here the sequence of its entries.       *)
(***************************************************************************)
MLHLS_SCHEME == "mlhls://"
NFHLS_SCHEME == "nfhls://"
HTTP_SCHEME == "http://"
SCHEME_LIST == {MLHLS_SCHEME, NFHLS_SCHEME}
HOST_LIST == {"localhost", "127.0.0.1"}
MASTER_M3U8 == "/master.m3u8"
INDEX_M3U8 == "/index.m3u8"

\* host_ as set_store_root composes it
StoreHost == "localhost:port"

\* HTTP_SCHEME + host_ + "/"
NfReplace == "http://localhost:port/"

\* std::regex_replace(str, pattern, with)
string_replace(str, pattern, with) ==
    [i \in 1..Len(str) |-> IF str[i] \in pattern THEN with ELSE str[i]]

\* std::regex_replace(str, pattern, "")
string_remove(str, pattern) == SelectSeq(str, LAMBDA tok : tok \notin pattern)

\* MediaDataStore::MediaDataStore()
NewStore ==
    [app_id_ |-> "e_app_unknown", request_id_ |-> 0, session_id_ |-> "",
     primary_uri_ |-> <<>>, uri_stack_ |-> <<>>, media_data_ |-> <<>>,
     mtx_ |-> "unlocked"]

\* what a call does: the store, the value returned, the FCUP requests sent,
\* the (uri, data) pairs handed to add_media_data, whether reset was called,
\* and whether the process goes on
StoreResult(st, ret, sent, added, was_reset) ==
    [store |-> st, ret |-> ret, sent |-> sent, added |-> added,
     was_reset |-> was_reset, alive |-> TRUE]

send_fcup_request(url, request_id, client_session_id) ==
    [FCUP_Response_URL |-> url, FCUP_Response_RequestID |-> request_id,
     session |-> client_session_id]

get_appi_id(uri) ==
    IF Len(uri) > 0 /\ uri[1] = MLHLS_SCHEME THEN "e_app_youtube"
    ELSE IF Len(uri) > 0 /\ uri[1] = NFHLS_SCHEME THEN "e_app_netflix"
    ELSE "e_app_unknown"

is_primary_data_uri(uri) ==
    \E i \in 1..Len(uri) : uri[i] \in {MASTER_M3U8, INDEX_M3U8}

adjust_primary_uri(uri) ==
    string_replace(string_replace(uri, SCHEME_LIST, HTTP_SCHEME), HOST_LIST, StoreHost)

\* the parts of a URI that begin with '/'
IsPath(tok) == tok \in {MASTER_M3U8, INDEX_M3U8, "/v1.m3u8", "/v2.m3u8"}

\* the youtube case falls through into the netflix case; s.at(0) throws on
\* an empty string: "at" is FALSE then
extract_uri_path(st, uri) ==
    IF st.app_id_ = "e_app_unknown"
    THEN [at |-> TRUE, path |-> uri]
    ELSE LET s1 == IF st.app_id_ = "e_app_youtube"
                   THEN string_remove(string_remove(uri, {MLHLS_SCHEME}), HOST_LIST)
                   ELSE uri
             s2 == string_remove(string_remove(s1, {NFHLS_SCHEME}), HOST_LIST)
         IN  IF Len(s2) = 0 THEN [at |-> FALSE, path |-> s2]
             ELSE IF ~IsPath(s2[1]) THEN [at |-> TRUE, path |-> <<"/">> \o s2]
             ELSE [at |-> TRUE, path |-> s2]

(* ---- playlist texts ---- *)
EmptyData == [kind |-> "empty"]

MasterData(media, stream_infs) ==
    [kind |-> "master", media |-> media, stream_infs |-> stream_infs]

MediaData(base, prefix, lines) ==
    [kind |-> "media", base |-> base, prefix |-> prefix, lines |-> lines]

AdjustUris(uris, pattern, with) ==
    [i \in 1..Len(uris) |-> string_replace(uris[i], pattern, with)]

adjust_mlhls_data(data) ==
    IF data.kind = "master"
    THEN MasterData(AdjustUris(AdjustUris(data.media, {MLHLS_SCHEME}, HTTP_SCHEME),
                               HOST_LIST, StoreHost),
                    AdjustUris(AdjustUris(data.stream_infs, {MLHLS_SCHEME}, HTTP_SCHEME),
                               HOST_LIST, StoreHost))
    ELSE data

adjust_nfhls_data(data) ==
    IF data.kind = "master"
    THEN MasterData(AdjustUris(data.media, {NFHLS_SCHEME}, NfReplace),
                    AdjustUris(data.stream_infs, {NFHLS_SCHEME},
                               NfReplace))
    ELSE data

adjust_primary_media_data(st, data) ==
    IF st.app_id_ = "e_app_youtube" THEN adjust_mlhls_data(data)
    ELSE IF st.app_id_ = "e_app_netflix" THEN adjust_nfhls_data(data)
    ELSE data

\* #YT-EXT-CONDENSED-URL: the lines that begin with PREFIX get BASE-URI and
\* "/" put in front
adjust_secondary_media_data(data) ==
    IF data.kind = "media" /\ data.base # <<>> /\ data.prefix # <<>>
    THEN [data EXCEPT !.lines =
             [i \in 1..Len(data.lines) |->
                 IF data.lines[i][1] = data.prefix[1]
                 THEN data.base \o <<"/">> \o data.lines[i]
                 ELSE data.lines[i]]]
    ELSE data

\* the child URIs hlsparse_master finds: the renditions, then the variants
hlsparse_master(data) ==
    IF data.kind = "master" THEN data.media \o data.stream_infs ELSE <<>>

(* ---- std::map<std::string, std::string> ---- *)
MapFind(m, key) ==
    IF \E i \in 1..Len(m) : m[i].uri = key
    THEN CHOOSE i \in 1..Len(m) : m[i].uri = key
    ELSE 0

\* inserts without looking for the key
MapInsertAnother(m, key, data) == Append(m, [uri |-> key, data |-> data])

\* m[key] = data
MapAssign(m, key, data) ==
    IF MapFind(m, key) = 0
    THEN Append(m, [uri |-> key, data |-> data])
    ELSE [m EXCEPT ![MapFind(m, key)].data = data]

add_media_data(st, uri, data) ==
    [st EXCEPT !.media_data_ = MapAssign(st.media_data_, uri, data)]

\* the empty std::string
EmptyString == [kind |-> "empty"]

query_media_data(st, path) ==
    LET it == MapFind(st.media_data_, path)
    IN  IF it # 0 THEN st.media_data_[it].data ELSE EmptyString

\* leaves the counter where it is
reset_keep_id(st) ==
    [st EXCEPT !.app_id_ = "e_app_unknown", !.session_id_ = "",
               !.primary_uri_ = <<>>, !.uri_stack_ = <<>>, !.media_data_ = <<>>]

reset(st) ==
    [st EXCEPT !.app_id_ = "e_app_unknown", !.request_id_ = 1, !.session_id_ = "",
               !.primary_uri_ = <<>>, !.uri_stack_ = <<>>, !.media_data_ = <<>>]

request_media_data(st, primary_uri, session_id) ==
    LET r == reset(st)
        id == get_appi_id(primary_uri)
    IN  IF id # "e_app_unknown"
        THEN StoreResult([r EXCEPT !.app_id_ = id, !.session_id_ = session_id,
                                   !.primary_uri_ = adjust_primary_uri(primary_uri),
                                   !.request_id_ = @ + 1],
                         TRUE,
                         <<send_fcup_request(primary_uri, r.request_id_, session_id)>>,
                         <<>>, TRUE)
        ELSE StoreResult(r, FALSE, <<>>, <<>>, TRUE)

\* uri_stack_.push of every child, the last pushed on top
PushAll(stack, uris) == stack \o uris

process_media_data(st, uri, data) ==
    LET pushed == IF is_primary_data_uri(uri)
                  THEN [st EXCEPT !.uri_stack_ = PushAll(@, hlsparse_master(data))]
                  ELSE st
        media_data == IF is_primary_data_uri(uri)
                      THEN adjust_primary_media_data(st, data)
                      ELSE adjust_secondary_media_data(data)
        path == extract_uri_path(st, uri)
        adds == path.path # <<>> /\ media_data # EmptyData
        added == IF adds THEN add_media_data(pushed, path.path, media_data) ELSE pushed
        pairs == IF adds THEN <<[uri |-> path.path, data |-> media_data]>> ELSE <<>>
        n == Len(added.uri_stack_)
    IN  IF ~path.at
        THEN [StoreResult(pushed, <<>>, <<>>, <<>>, FALSE) EXCEPT !.alive = FALSE]
        ELSE IF n = 0
        THEN StoreResult(added, added.primary_uri_, <<>>, pairs, FALSE)
        ELSE StoreResult([added EXCEPT !.uri_stack_ = SubSeq(@, 1, n - 1),
                                       !.request_id_ = @ + 1],
                         <<>>,
                         <<send_fcup_request(added.uri_stack_[n], added.request_id_,
                                             added.session_id_)>>,
                         pairs, FALSE)

\* the extern "C" query_media_data: the length, and a pointer to the
\* characters of a std::string that is destroyed when the function returns.
\* What the caller finds behind the pointer is the text or anything else.
length(data) ==
    IF data.kind = "master" THEN 1 + Len(data.media) + Len(data.stream_infs)
    ELSE IF data.kind = "media" THEN 1 + Len(data.lines)
    ELSE 0

query_media_data_c(st, path) ==
    LET data == query_media_data(st, path)
    IN  IF length(data) = 0
        THEN {[len |-> 0, media_data |-> EmptyString]}
        ELSE {[len |-> length(data), media_data |-> d] : d \in {data, [kind |-> "freed"]}}

(* ---- the calls made on a store and what they are given ---- *)
UriMaster == <<MLHLS_SCHEME, "localhost", MASTER_M3U8>>
UriV1 == <<MLHLS_SCHEME, "localhost", "/v1.m3u8">>
UriV2 == <<MLHLS_SCHEME, "localhost", "/v2.m3u8">>
UriOther == <<HTTP_SCHEME, "localhost", MASTER_M3U8>>

PrimaryUris == {UriMaster, UriOther}
DataUris == {UriMaster, UriV1}
StoreData ==
    {EmptyData,
     MasterData(<<UriV1>>, <<UriV2>>),
     MasterData(<<UriV1>>, <<UriV1, UriV2>>),
     MediaData(<<>>, <<>>, <<<<"seg1">>>>),
     MediaData(<<"base">>, <<"seg">>, <<<<"seg", "2">>>>)}
QueryPaths == {<<MASTER_M3U8>>, <<"/v1.m3u8">>, <<"/v2.m3u8">>}

\* what was seen of the store: the last call, the text last handed to
\* add_media_data for each uri since the last reset with the number of times
\* it was handed over in a row, and the FCUP requests sent since then
NoStoreCall == [op |-> "none", arg |-> <<>>, ret |-> <<>>, pre |-> NewStore]

NothingInserted == [p \in {} |-> EmptyData]

StoreIdle ==
    /\ store = NewStore
    /\ store_obs = [last |-> NoStoreCall, inserted |-> NothingInserted, fcup |-> <<>>]
    /\ pc = [t \in {} |-> 0]

RECURSIVE Inserted(_, _)
Inserted(ins, pairs) ==
    IF pairs = <<>> THEN ins
    ELSE LET p == pairs[1]
             again == p.uri \in DOMAIN ins /\ ins[p.uri].data = p.data
             entry == [data |-> p.data, times |-> IF again THEN ins[p.uri].times + 1 ELSE 1]
         IN  Inserted([u \in DOMAIN ins \cup {p.uri} |-> IF u = p.uri THEN entry ELSE ins[u]],
                      Tail(pairs))

Sent(log, sent, op) ==
    log \o [i \in 1..Len(sent) |-> [id |-> sent[i].FCUP_Response_RequestID, by |-> op]]

(***************************************************************************)
(* the handlers as tasks: httpd gives every connection a task of its own,  *)
(* so a handler of one connection runs while a handler of another one is   *)
(* between two of its lines.  The registry holds pointers: heap.at[i] is    *)
(* the address in airplay_video[i] (0 for NULL), heap.freed the addresses  *)
(* that airplay_video_destroy has given back.                              *)
(***************************************************************************)
HlsTasks == {"hls"}
\* the tasks of the connections that send POST /reverse, and their connections
ReverseTasks == {"reverse1", "reverse2", "reverse3"}
ConnOf(t) == IF t = "reverse1" THEN 1 ELSE IF t = "reverse2" THEN 2 ELSE 3
Tasks == {"control"} \cup HlsTasks \cup ReverseTasks
TaskAtRest == [at |-> "idle"]

NewHeap == [next |-> 1, freed |-> {}, at |-> [i \in Slots |-> 0]]

TaskIdle ==
    /\ task = [t \in Tasks |-> TaskAtRest]
    /\ heap = NewHeap

(***************************************************************************)
(* renderers/mux_renderer.c: the recorder of the mirrored stream.  The     *)
(* GStreamer pipeline is what it was launched with and whether it exists.  *)
(***************************************************************************)
GST_CLOCK_TIME_NONE == 0 - 1

\* static mux_renderer_t *renderer = NULL
NoRenderer == [kind |-> "NULL"]

\* a GstElement * that is NULL
NoPipeline == [kind |-> "NULL"]

\* g_new0(mux_renderer_t, 1), base_time = GST_CLOCK_TIME_NONE, audio_ct = 8
NewRenderer ==
    [kind |-> "renderer", pipeline |-> NoPipeline, video_appsrc |-> FALSE,
     audio_appsrc |-> FALSE, base_time |-> GST_CLOCK_TIME_NONE,
     first_video_time |-> 0, first_audio_time |-> 0, audio_started |-> FALSE,
     is_h265 |-> FALSE, audio_ct |-> 8]

NewMux == [renderer |-> NoRenderer, file_count |-> 0,
           last |-> [op |-> "none", arg |-> <<>>, pushed |-> FALSE,
                     pre |-> NoRenderer]]

MuxIdle == mux = NewMux

\* mux_renderer_init
mux_renderer_init(m) == [m EXCEPT !.file_count = 0]

\* mux_renderer_stop
mux_renderer_stop(m) ==
    IF m.renderer = NoRenderer \/ m.renderer.pipeline = NoPipeline
    THEN m
    ELSE [m EXCEPT !.renderer.pipeline = NoPipeline,
                   !.renderer.video_appsrc = FALSE,
                   !.renderer.audio_appsrc = FALSE,
                   !.renderer.base_time = GST_CLOCK_TIME_NONE]

\* mux_renderer_start; launch tells whether gst_parse_launch succeeds
\* (on an error the returned element is taken to be NULL)
mux_renderer_start(m, launch) ==
    IF m.renderer = NoRenderer THEN m
    ELSE IF m.renderer.pipeline # NoPipeline THEN m
    ELSE IF launch = "error"
    THEN [m EXCEPT !.file_count = @ + 1]
    ELSE [m EXCEPT !.file_count = @ + 1,
                   !.renderer.pipeline =
                       [kind |-> "pipeline", is_h265 |-> m.renderer.is_h265,
                        audio_ct |-> m.renderer.audio_ct, file |-> m.file_count + 1],
                   !.renderer.video_appsrc = TRUE,
                   !.renderer.audio_appsrc = TRUE,
                   !.renderer.base_time = GST_CLOCK_TIME_NONE,
                   !.renderer.first_video_time = GST_CLOCK_TIME_NONE,
                   !.renderer.first_audio_time = GST_CLOCK_TIME_NONE,
                   !.renderer.audio_started = FALSE]

\* mutant: the recorder is started again after the codec was changed
mux_renderer_choose_audio_codec_restart(m, audio_ct) ==
    LET changed == m.renderer # NoRenderer /\ m.renderer.audio_ct # audio_ct
        stopped == IF changed THEN mux_renderer_stop(m) ELSE m
        made == IF stopped.renderer = NoRenderer
                THEN [stopped EXCEPT !.renderer = NewRenderer]
                ELSE stopped
        chosen == [made EXCEPT !.renderer.audio_ct = audio_ct]
    IN  IF changed /\ m.renderer.pipeline # NoPipeline
        THEN mux_renderer_start(chosen, "ok")
        ELSE chosen

\* mux_renderer_choose_audio_codec
mux_renderer_choose_audio_codec(m, audio_ct) ==
    LET stopped == IF m.renderer # NoRenderer /\ m.renderer.audio_ct # audio_ct
                   THEN mux_renderer_stop(m)
                   ELSE m
        made == IF stopped.renderer = NoRenderer
                THEN [stopped EXCEPT !.renderer = NewRenderer]
                ELSE stopped
    IN  [made EXCEPT !.renderer.audio_ct = audio_ct]

\* mux_renderer_choose_video_codec
mux_renderer_choose_video_codec(m, is_h265, launch) ==
    LET stopped == IF /\ m.renderer # NoRenderer
                      /\ m.renderer.pipeline # NoPipeline
                      /\ m.renderer.is_h265 # is_h265
                   THEN mux_renderer_stop(m)
                   ELSE m
        made == IF stopped.renderer = NoRenderer
                THEN [stopped EXCEPT !.renderer = NewRenderer]
                ELSE stopped
    IN  mux_renderer_start([made EXCEPT !.renderer.is_h265 = is_h265], launch)

\* the early return of both push functions: the frame is dropped
MuxDrops(m, appsrc) ==
    \/ m.renderer = NoRenderer
    \/ m.renderer.pipeline = NoPipeline
    \/ ~appsrc

\* mux_renderer_push_video: the state, and whether the frame was pushed
mux_renderer_push_video(m, ntp_time) ==
    IF MuxDrops(m, m.renderer # NoRenderer /\ m.renderer.video_appsrc)
    THEN [mux |-> m, pushed |-> FALSE]
    ELSE [mux |-> IF m.renderer.base_time = GST_CLOCK_TIME_NONE
                  THEN [m EXCEPT !.renderer.base_time = ntp_time,
                                 !.renderer.first_video_time = ntp_time]
                  ELSE m,
          pushed |-> TRUE]

\* mux_renderer_push_audio
mux_renderer_push_audio(m, ntp_time) ==
    IF MuxDrops(m, m.renderer # NoRenderer /\ m.renderer.audio_appsrc)
    THEN [mux |-> m, pushed |-> FALSE]
    ELSE LET started ==
                 IF /\ ~m.renderer.audio_started
                    /\ m.renderer.first_video_time # GST_CLOCK_TIME_NONE
                 THEN [m EXCEPT !.renderer.audio_started = TRUE,
                                !.renderer.first_audio_time = ntp_time]
                 ELSE m
         IN  [mux |-> IF started.renderer.base_time = GST_CLOCK_TIME_NONE
                      THEN [started EXCEPT !.renderer.base_time = ntp_time]
                      ELSE started,
              pushed |-> TRUE]

\* mux_renderer_destroy
mux_renderer_destroy(m) == [mux_renderer_stop(m) EXCEPT !.renderer = NoRenderer]

\* the codecs of RAOP: ct = 2 is ALAC, ct = 8 is AAC-ELD
AudioCodecs == {2, 8}
NtpTimes == {10, 20}

AuxInit == PairingIdle /\ DigestIdle /\ StoreIdle /\ TaskIdle /\ MuxIdle

Init ==
    /\ conn_type = [c \in Conns |-> "CONTROL"]
    /\ airplay_video = [i \in Slots |-> NullVideo]
    /\ current_video = 0
    /\ proc = "running"
    /\ last = [handler |-> "none", req |-> [conn |-> 0], out |-> NoOutput]
    /\ nreq = MaxRequests
    /\ distinct_plays = <<0>>
    /\ AuxInit

\* nreq: the number of requests the senders still send
Serving == proc = "running" /\ nreq > 0

HttpHandlerReverse(c) ==
    /\ Serving
    /\ conn_type' = http_handler_reverse(conn_type, c).conn_type
    /\ last' = [handler |-> "reverse", req |-> [conn |-> c],
                out |-> http_handler_reverse(conn_type, c).out]
    /\ nreq' = nreq - 1
    /\ UNCHANGED <<airplay_video, current_video, proc, distinct_plays>>
    /\ UNCHANGED aux_vars

HttpHandlerAction(req) ==
    /\ Serving
    /\ \E o \in http_handler_action(airplay_video, current_video, req) :
          /\ airplay_video' = o.airplay_video
          /\ current_video' = o.current_video
          /\ proc' = o.proc
          /\ last' = [handler |-> "action", req |-> req, out |-> o.out]
    /\ nreq' = nreq - 1
    /\ UNCHANGED <<conn_type, distinct_plays>>
    /\ UNCHANGED aux_vars

HttpHandlerPlay(req) ==
    /\ Serving
    /\ \E o \in http_handler_play(airplay_video, current_video, req) :
          /\ airplay_video' = o.airplay_video
          /\ current_video' = o.current_video
          /\ proc' = o.proc
          /\ last' = [handler |-> "play", req |-> req, out |-> o.out]
    /\ nreq' = nreq - 1
    /\ distinct_plays' = LogPlay(distinct_plays, req)
    /\ UNCHANGED conn_type
    /\ UNCHANGED aux_vars

Next ==
    \/ \E req \in ActionRequests : HttpHandlerAction(req)
    \/ \E req \in PlayRequests : HttpHandlerPlay(req)

Spec == Init /\ [][Next]_vars

(***************************************************************************)
(* the connection table under POST /reverse                                *)
(***************************************************************************)
InitReverse ==
    /\ conn_type = [c \in Conns |-> "CONTROL"]
    /\ airplay_video = [i \in Slots |-> NullVideo]
    /\ current_video = 0
    /\ proc = "running"
    /\ last = [handler |-> "none", req |-> [conn |-> 0], out |-> NoOutput]
    /\ nreq = MaxReverseRequests
    /\ distinct_plays = <<0>>
    /\ AuxInit

\* a connection is closed and its entry of the table is taken by a newly
\* accepted connection, whose type is the initial one
HttpdAccept(c) ==
    /\ Serving
    /\ conn_type' = [conn_type EXCEPT ![c] = "CONTROL"]
    /\ last' = [handler |-> "accept", req |-> [conn |-> c], out |-> NoOutput]
    /\ nreq' = nreq - 1
    /\ UNCHANGED <<airplay_video, current_video, proc, distinct_plays>>
    /\ UNCHANGED aux_vars

NextReverse ==
    \/ \E c \in Conns : HttpHandlerReverse(c)
    \/ \E c \in Conns : HttpdAccept(c)

SpecReverse == InitReverse /\ [][NextReverse]_vars

(***************************************************************************)
(* the registry under many playbacks: every uuid, one shape of request     *)
(***************************************************************************)
RegistryPlayRequests ==
    {PlayRequest("S1", uuid, LocationX, TRUE) : uuid \in Uuids}
    \cup {[PlayRequest("S1", 1, LocationX, TRUE) EXCEPT !.has_location = FALSE]}

\* a playback is short until its media playlist is fetched
RegistryActionRequests ==
    {ActionRequest("S1", TRUE, MasterText(1)),
     ActionRequest("S1", FALSE, MediaText(MIN_STORED_AIRPLAY_VIDEO_DURATION_SECONDS))}

InitRegistry ==
    /\ conn_type = [c \in Conns |-> "CONTROL"]
    /\ airplay_video = [i \in Slots |-> NullVideo]
    /\ current_video = 0
    /\ proc = "running"
    /\ last = [handler |-> "none", req |-> [conn |-> 0], out |-> NoOutput]
    /\ nreq = MaxRegistryRequests
    /\ distinct_plays = <<>>
    /\ AuxInit

NextRegistry ==
    \/ \E req \in RegistryActionRequests : HttpHandlerAction(req)
    \/ \E req \in RegistryPlayRequests : HttpHandlerPlay(req)

SpecRegistry == InitRegistry /\ [][NextRegistry]_vars

(***************************************************************************)
(* the registry under eviction: playbacks that are fetched completely or   *)
(* are still short when the next one starts                                *)
(***************************************************************************)
\* a destroyed playback may be started again: MAX_AIRPLAY_VIDEO uuids
EvictionPlayRequests ==
    {PlayRequest("S1", uuid, LocationX, TRUE) : uuid \in 1..MAX_AIRPLAY_VIDEO}

EvictionActionRequests ==
    {ActionRequest("S1", TRUE, MasterText(1)),
     ActionRequest("S1", FALSE, MediaText(MIN_STORED_AIRPLAY_VIDEO_DURATION_SECONDS))}

InitEviction ==
    /\ conn_type = [c \in Conns |-> "CONTROL"]
    /\ airplay_video = [i \in Slots |-> NullVideo]
    /\ current_video = 0
    /\ proc = "running"
    /\ last = [handler |-> "none", req |-> [conn |-> 0], out |-> NoOutput]
    /\ nreq = MaxEvictionRequests
    /\ distinct_plays = <<0>>
    /\ AuxInit

NextEviction ==
    \/ \E req \in EvictionActionRequests : HttpHandlerAction(req)
    \/ \E req \in EvictionPlayRequests : HttpHandlerPlay(req)

SpecEviction == InitEviction /\ [][NextEviction]_vars

(***************************************************************************)
(* playback: a playlist tree is fetched, the player asks for the playlists *)
(* and the sender asks for the position and stops                          *)
(***************************************************************************)
HttpHandlerStop ==
    /\ Serving
    /\ \E o \in http_handler_stop(airplay_video, current_video) :
          /\ airplay_video' = o.airplay_video
          /\ current_video' = o.current_video
          /\ proc' = o.proc
          /\ last' = [handler |-> "stop", req |-> [conn |-> 0], out |-> o.out]
    /\ nreq' = nreq - 1
    /\ UNCHANGED <<conn_type, distinct_plays>>
    /\ UNCHANGED aux_vars

HttpHandlerPlaybackInfo(info) ==
    /\ Serving
    /\ last' = [handler |-> "playback_info", req |-> info,
                out |-> http_handler_playback_info(info)]
    /\ nreq' = nreq - 1
    /\ UNCHANGED <<conn_type, airplay_video, current_video, proc, distinct_plays>>
    /\ UNCHANGED aux_vars

HttpHandlerHls(req) ==
    /\ Serving
    /\ \E o \in http_handler_hls(airplay_video, current_video, req) :
          /\ airplay_video' = o.airplay_video
          /\ current_video' = o.current_video
          /\ proc' = o.proc
          /\ last' = [handler |-> "hls", req |-> req, out |-> o.out]
    /\ nreq' = nreq - 1
    /\ UNCHANGED <<conn_type, distinct_plays>>
    /\ UNCHANGED aux_vars

\* what the renderer reports: -1 stands for "not available"
PlaybackInfos ==
    [duration : {0 - 1, 0, 60}, position : {0 - 1, 0, 10, 60}]

HlsUrls == {<<MASTER>>} \cup {get_media_uri_by_num(NullVideo, i) : i \in 0..MaxUris}

HlsRequests == [upgrade : BOOLEAN, url : HlsUrls]

PlaybackPlayRequests == {PlayRequest("S1", uuid, LocationX, TRUE) : uuid \in 1..2}

PlaybackActionRequests ==
    {ActionRequest("S1", TRUE, MasterText(n)) : n \in 1..MaxUris}
    \cup {ActionRequest("S1", FALSE, MediaText(MIN_STORED_AIRPLAY_VIDEO_DURATION_SECONDS)),
          ActionRequest("S1", FALSE,
                        CondensedText(MIN_STORED_AIRPLAY_VIDEO_DURATION_SECONDS))}

InitPlayback ==
    /\ conn_type = [c \in Conns |-> "CONTROL"]
    /\ airplay_video = [i \in Slots |-> NullVideo]
    /\ current_video = 0
    /\ proc = "running"
    /\ last = [handler |-> "none", req |-> [conn |-> 0], out |-> NoOutput]
    /\ nreq = MaxPlaybackRequests
    /\ distinct_plays = <<0>>
    /\ AuxInit

NextPlayback ==
    \/ \E req \in PlaybackActionRequests : HttpHandlerAction(req)
    \/ \E req \in PlaybackPlayRequests : HttpHandlerPlay(req)
    \/ HttpHandlerStop
    \/ \E info \in PlaybackInfos : HttpHandlerPlaybackInfo(info)
    \/ \E req \in HlsRequests : HttpHandlerHls(req)

SpecPlayback == InitPlayback /\ [][NextPlayback]_vars

(***************************************************************************)
(* pairing: the functions of pairing.c called on one session in any order, *)
(* with what a client can send                                             *)
(***************************************************************************)
\* the server object, left alone
RaopIdle ==
    /\ conn_type = [c \in Conns |-> "CONTROL"]
    /\ airplay_video = [i \in Slots |-> NullVideo]
    /\ current_video = 0
    /\ last = [handler |-> "none", req |-> [conn |-> 0], out |-> NoOutput]
    /\ distinct_plays = <<0>>

PairingCall(op, arg, r) ==
    /\ proc = "running"
    /\ session' = r.session
    /\ pair_last' = [op |-> op, ret |-> r.ret, out |-> r.out, pre |-> session,
                     arg |-> arg]
    /\ proc' = IF r.alive THEN proc ELSE "crashed"
    /\ UNCHANGED <<raop_vars, nreq, digest_vars, store_vars, task_vars, mux_vars>>

PairingGetEcdhSecretKey ==
    PairingCall("get_ecdh_secret_key", <<>>, pairing_get_ecdh_secret_key(session))

PairingSessionSetSetupStatus ==
    PairingCall("set_setup_status", <<>>, pairing_session_set_setup_status(session))

PairingSessionCheckHandshakeStatus ==
    PairingCall("check_handshake_status", <<>>,
                pairing_session_check_handshake_status(session))

PairingSessionHandshake(ecdh_key, ed_key, generated) ==
    PairingCall("handshake", <<ecdh_key, ed_key>>,
                pairing_session_handshake(session, ecdh_key, ed_key, generated))

\* what a client can send as its signature: signed by either identity, over
\* the two keys in either order, encrypted at the start of the stream, one
\* AES block into it or behind the server's signature
ClientSignatures(s) ==
    {aes_ctr_encrypt(derive_key_internal(s, SALT_KEY), derive_key_internal(s, SALT_IV),
                     off, ed25519_sign(msg, k)) :
        off \in {0, AES_128_BLOCK_SIZE, PAIRING_SIG_SIZE}, k \in ClientEdKeys,
        msg \in {<<s.ecdh_theirs, x25519_key_get_raw(s.ecdh_ours)>>,
                 <<x25519_key_get_raw(s.ecdh_ours), s.ecdh_theirs>>}}

PairingSessionGetPublicKey ==
    PairingCall("get_public_key", <<>>, pairing_session_get_public_key(session))

PairingSessionGetSignature ==
    PairingCall("get_signature", <<>>, pairing_session_get_signature(session))

PairingSessionFinish(signature) ==
    PairingCall("finish", signature, pairing_session_finish(session, signature))

SrpNewUser(device_id) ==
    PairingCall("srp_new_user", device_id, srp_new_user(session, device_id, ServerPin, 1))

\* the client's ephemeral key A
ClientA == 5

SrpValidateProof(proof) ==
    PairingCall("srp_validate_proof", proof, srp_validate_proof(session, ClientA, proof))

\* the session keys a client can compute: the one of an SRP run with a PIN it
\* holds, and the all-zero one
ClientSessionKeys(s) ==
    {ZeroSessionKey}
    \cup {srp_verifier_get_session_key(
              srp_create_salted_verification_key(s.username, pin).verifier,
              ClientA, 1).key : pin \in ClientPins}

\* the client's long-term key sealed under a key it can compute, with the
\* tag of the text or with the tag of another text
ClientEpks(s) ==
    {[epk |-> gcm_encrypt(pk, PairSetupKey(K), PairSetupIV(K, 1)).epk,
      auth_tag |-> gcm_encrypt(tagged, PairSetupKey(K), PairSetupIV(K, 1)).auth_tag] :
        K \in ClientSessionKeys(s), pk \in ClientEdKeys, tagged \in ClientEdKeys}

SrpConfirmPairSetup(sealed) ==
    PairingCall("srp_confirm_pair_setup", sealed,
                srp_confirm_pair_setup(session, sealed.epk, sealed.auth_tag, "edServer"))

InitPairing ==
    /\ RaopIdle
    /\ proc = "running"
    /\ nreq = 0
    /\ PairingIdle
    /\ DigestIdle
    /\ StoreIdle
    /\ TaskIdle
    /\ MuxIdle

NextPairing ==
    \/ PairingGetEcdhSecretKey
    \/ PairingSessionSetSetupStatus
    \/ PairingSessionCheckHandshakeStatus
    \/ \E ecdh_key \in ClientEcdhKeys, ed_key \in ClientEdKeys,
          generated \in ServerEcdhPrivate :
          PairingSessionHandshake(ecdh_key, ed_key, generated)
    \/ PairingSessionGetPublicKey
    \/ PairingSessionGetSignature
    \/ \E signature \in ClientSignatures(session) : PairingSessionFinish(signature)
    \/ \E device_id \in DeviceIds : SrpNewUser(device_id)
    \/ \E pin \in ClientPins :
          SrpValidateProof(ClientProof(session.username, pin, ClientA))
    \/ \E sealed \in ClientEpks(session) : SrpConfirmPairSetup(sealed)

SpecPairing == InitPairing /\ [][NextPairing]_vars

(***************************************************************************)
(* HTTP Digest: pairing_digest_verify applied to the header of a client    *)
(***************************************************************************)
PairingDigestVerify ==
    /\ digest.result = "pending"
    /\ digest' = [digest EXCEPT !.result =
                     pairing_digest_verify(digest.method,
                                           Authorization(digest.order, digest.fields),
                                           digest.password).result]
    /\ UNCHANGED <<raop_vars, proc, nreq, pairing_vars, store_vars, task_vars, mux_vars>>

InitDigest ==
    /\ RaopIdle
    /\ proc = "running"
    /\ nreq = 0
    /\ PairingIdle
    /\ StoreIdle
    /\ TaskIdle
    /\ MuxIdle
    /\ digest \in DigestInputs

NextDigest == PairingDigestVerify

SpecDigest == InitDigest /\ [][NextDigest]_vars

(***************************************************************************)
(* the playlist store: the calls of one control connection                 *)
(***************************************************************************)
StoreCall(op, arg, r) ==
    /\ proc = "running"
    /\ nreq > 0
    /\ nreq' = nreq - 1
    /\ store' = r.store
    /\ store_obs' =
          [last |-> [op |-> op, arg |-> arg, ret |-> r.ret, pre |-> store],
           inserted |-> Inserted(IF r.was_reset THEN NothingInserted
                                 ELSE store_obs.inserted, r.added),
           fcup |-> Sent(IF r.was_reset THEN <<>> ELSE store_obs.fcup, r.sent, op)]
    /\ proc' = IF r.alive THEN proc ELSE "crashed"
    /\ UNCHANGED <<raop_vars, pairing_vars, digest_vars, pc, task_vars, mux_vars>>

RequestMediaData(primary_uri) ==
    StoreCall("request_media_data", primary_uri,
              request_media_data(store, primary_uri, "S1"))

ProcessMediaData(uri, data) ==
    StoreCall("process_media_data", [uri |-> uri, data |-> data],
              process_media_data(store, uri, data))

QueryMediaData(path) ==
    StoreCall("query_media_data", path,
              StoreResult(store, query_media_data(store, path), <<>>, <<>>, FALSE))

QueryMediaDataC(path) ==
    \E found \in query_media_data_c(store, path) :
        StoreCall("query_media_data_c", path,
                  StoreResult(store, found, <<>>, <<>>, FALSE))

MediaDataStoreReset ==
    StoreCall("reset", <<>>, StoreResult(reset(store), <<>>, <<>>, <<>>, TRUE))

InitStore ==
    /\ RaopIdle
    /\ proc = "running"
    /\ nreq = MaxStoreCalls
    /\ PairingIdle
    /\ DigestIdle
    /\ StoreIdle
    /\ TaskIdle
    /\ MuxIdle

NextStore ==
    \/ \E primary_uri \in PrimaryUris : RequestMediaData(primary_uri)
    \/ \E uri \in DataUris, data \in StoreData : ProcessMediaData(uri, data)
    \/ \E path \in QueryPaths : QueryMediaData(path)
    \/ \E path \in QueryPaths : QueryMediaDataC(path)
    \/ MediaDataStoreReset

SpecStore == InitStore /\ [][NextStore]_vars

(***************************************************************************)
(* the playlist store under threads: the control connection inserts and    *)
(* resets, the renderer's loopback connections query.  Each access to      *)
(* media_data_ is a step of its own, so that two accesses can overlap.     *)
(***************************************************************************)
LoopbackThreads == {"loopback1", "loopback2"}
StoreThreads == {"control"} \cup LoopbackThreads
Idle == [at |-> "idle"]

ThreadStep ==
    /\ proc = "running"
    /\ UNCHANGED <<raop_vars, proc, nreq, pairing_vars, digest_vars, store_obs,
                 task_vars, mux_vars>>

\* std::lock_guard<std::mutex> l(mtx_)
Lock(t) == store.mtx_ = "unlocked" /\ store' = [store EXCEPT !.mtx_ = t]

\* query_media_data: the lock is taken, the map is searched, the lock is
\* given back with the return
QueryLock(t, path) ==
    /\ ThreadStep
    /\ pc[t] = Idle
    /\ Lock(t)
    /\ pc' = [pc EXCEPT ![t] = [at |-> "find", path |-> path]]

\* a search of the map while another thread modifies it is a data race: it
\* finds the text, nothing, or what is left of an entry
QueryFind(t) ==
    /\ ThreadStep
    /\ pc[t].at = "find"
    /\ \E found \in IF pc["control"].at \in {"assign", "clear"}
                    THEN {query_media_data(store, pc[t].path), EmptyString,
                          [kind |-> "freed"]}
                    ELSE {query_media_data(store, pc[t].path)} :
          pc' = [pc EXCEPT ![t] = [at |-> "found", path |-> pc[t].path, ret |-> found]]
    /\ UNCHANGED store

QueryReturn(t) ==
    /\ ThreadStep
    /\ pc[t].at = "found"
    /\ store' = [store EXCEPT !.mtx_ = "unlocked"]
    /\ pc' = [pc EXCEPT ![t] = Idle]

\* add_media_data: the assignment is made inside the block of the lock_guard
AddLock(uri, data) ==
    /\ ThreadStep
    /\ pc["control"] = Idle
    /\ Lock("control")
    /\ pc' = [pc EXCEPT !["control"] = [at |-> "assign", uri |-> uri, data |-> data]]

AddAssign ==
    /\ ThreadStep
    /\ pc["control"].at = "assign"
    /\ store' = add_media_data(store, pc["control"].uri, pc["control"].data)
    /\ pc' = [pc EXCEPT !["control"] = [at |-> "assigned"]]

AddUnlock ==
    /\ ThreadStep
    /\ pc["control"].at = "assigned"
    /\ store' = [store EXCEPT !.mtx_ = "unlocked"]
    /\ pc' = [pc EXCEPT !["control"] = Idle]

\* reset, called by request_media_data and by media_data_store_reset: the
\* other members are assigned, then media_data_.clear() runs; no lock_guard
ResetMembers ==
    /\ ThreadStep
    /\ pc["control"] = Idle
    /\ store' = [reset(store) EXCEPT !.media_data_ = store.media_data_,
                                     !.mtx_ = store.mtx_]
    /\ pc' = [pc EXCEPT !["control"] = [at |-> "clear"]]

ResetClear ==
    /\ ThreadStep
    /\ pc["control"].at = "clear"
    /\ store' = [store EXCEPT !.media_data_ = <<>>]
    /\ pc' = [pc EXCEPT !["control"] = Idle]

InitStoreThreads ==
    /\ RaopIdle
    /\ proc = "running"
    /\ nreq = 0
    /\ PairingIdle
    /\ DigestIdle
    /\ TaskIdle
    /\ MuxIdle
    /\ store = NewStore
    /\ store_obs = [last |-> NoStoreCall, inserted |-> NothingInserted, fcup |-> <<>>]
    /\ pc = [t \in StoreThreads |-> Idle]

NextStoreThreads ==
    \/ \E t \in LoopbackThreads, path \in QueryPaths : QueryLock(t, path)
    \/ \E t \in LoopbackThreads : QueryFind(t)
    \/ \E t \in LoopbackThreads : QueryReturn(t)
    \/ \E uri \in QueryPaths, data \in StoreData \ {EmptyData} : AddLock(uri, data)
    \/ AddAssign
    \/ AddUnlock
    \/ ResetMembers
    \/ ResetClear

SpecStoreThreads == InitStoreThreads /\ [][NextStoreThreads]_vars

(***************************************************************************)
(* the registry under tasks: POST /play and POST /action arrive on the     *)
(* control connection, the player's GET requests on a loopback connection  *)
(* of its own.  /play is taken line by line where it frees a structure or  *)
(* writes the registry; the GET handler reads the registry in its first    *)
(* line and uses what it read in the lines after it.                       *)
(***************************************************************************)
MaxTaskRequests == 7

TaskPlayRequests ==
    {PlayRequest("S1", uuid, LocationX, TRUE) : uuid \in 1..MAX_AIRPLAY_VIDEO}

TaskActionRequests ==
    {ActionRequest("S1", TRUE, MasterText(1)),
     ActionRequest("S1", FALSE, MediaText(MIN_STORED_AIRPLAY_VIDEO_DURATION_SECONDS))}

TaskHlsRequests == {[upgrade |-> FALSE, url |-> <<MASTER>>]}

ControlIdle == task["control"] = TaskAtRest

\* what a step of a task leaves alone
TaskStep ==
    /\ proc = "running"
    /\ UNCHANGED <<conn_type, distinct_plays, pairing_vars, digest_vars, store_vars,
                   mux_vars>>

\* POST /action, and POST /play for a playlist that is stored already: no
\* structure is freed, the handler is one step
TaskAction(req) ==
    /\ ControlIdle
    /\ HttpHandlerAction(req)

TaskPlayKnown(req) ==
    /\ ControlIdle
    /\ PlayLookup(airplay_video, req.uuid) >= 0
    /\ HttpHandlerPlay(req)

\* lines 707-751 of http_handler_play: the request is parsed, the uuid is not
\* in the registry
PlayEnter(req) ==
    /\ TaskStep
    /\ Serving
    /\ ControlIdle
    /\ PlayLookup(airplay_video, req.uuid) < 0
    /\ task' = [task EXCEPT !["control"] =
                   [at |-> "purge", req |-> req, pre |-> airplay_video,
                    precur |-> current_video, i |-> 0, id |-> 0, count |-> 0]]
    /\ nreq' = nreq - 1
    /\ UNCHANGED <<airplay_video, current_video, proc, last, heap>>

\* line 762: airplay_video_destroy(conn->raop->airplay_video[i]) in the loop
\* over the short playlists; the loop goes upwards and clears every slot it
\* has freed, so i is the first slot that is still short
PlayPurgeDestroy ==
    /\ TaskStep
    /\ task["control"].at = "purge"
    /\ PlayShort(airplay_video) # {}
    /\ LET i == CHOOSE k \in PlayShort(airplay_video) :
                    \A j \in PlayShort(airplay_video) : k <= j
       IN  /\ heap' = [heap EXCEPT !.freed = @ \cup {heap.at[i]}]
           /\ task' = [task EXCEPT !["control"].at = "purge_null",
                                   !["control"].i = i]
    /\ UNCHANGED <<airplay_video, current_video, proc, last, nreq>>

\* line 763: conn->raop->airplay_video[i] = NULL
PlayPurgeNull ==
    /\ TaskStep
    /\ task["control"].at = "purge_null"
    /\ airplay_video' = [airplay_video EXCEPT ![task["control"].i] = NullVideo]
    /\ heap' = [heap EXCEPT !.at[task["control"].i] = 0]
    /\ task' = [task EXCEPT !["control"].at = "purge"]
    /\ UNCHANGED <<current_video, proc, last, nreq>>

\* lines 771-793: the first unused slot is taken for a new structure and
\* current_video is set to it
PlayCreate ==
    /\ TaskStep
    /\ task["control"].at = "purge"
    /\ PlayShort(airplay_video) = {}
    /\ LET id == PlayFreeSlot(airplay_video)
           count == Cardinality({i \in Slots : airplay_video[i].live})
       IN  IF id = 0 - 1
           THEN /\ proc' = "exited"
                /\ task' = [task EXCEPT !["control"] = TaskAtRest]
                /\ UNCHANGED <<airplay_video, current_video, heap>>
           ELSE /\ airplay_video' =
                      [airplay_video EXCEPT
                          ![id] = [airplay_video_init EXCEPT
                                      !.playback_uuid = task["control"].req.uuid]]
                /\ current_video' = id
                /\ heap' = [heap EXCEPT !.at[id] = heap.next, !.next = @ + 1]
                /\ task' = [task EXCEPT !["control"].at = "evict",
                                        !["control"].id = id,
                                        !["control"].count = count + 1]
                /\ proc' = proc
    /\ UNCHANGED <<last, nreq>>

\* line 806: airplay_video_destroy(conn->raop->airplay_video[next])
PlayEvictDestroy ==
    /\ TaskStep
    /\ task["control"].at = "evict"
    /\ PlayEvict(task["control"].id, task["control"].count) # {}
    /\ LET next == CHOOSE k \in PlayEvict(task["control"].id, task["control"].count) :
                       TRUE
       IN  /\ heap' = [heap EXCEPT !.freed = @ \cup {heap.at[next]}]
           /\ task' = [task EXCEPT !["control"].at = "evict_null",
                                   !["control"].i = next]
    /\ UNCHANGED <<airplay_video, current_video, proc, last, nreq>>

\* line 807: conn->raop->airplay_video[next] = NULL
PlayEvictNull ==
    /\ TaskStep
    /\ task["control"].at = "evict_null"
    /\ airplay_video' = [airplay_video EXCEPT ![task["control"].i] = NullVideo]
    /\ heap' = [heap EXCEPT !.at[task["control"].i] = 0]
    /\ task' = [task EXCEPT !["control"].at = "return"]
    /\ UNCHANGED <<current_video, proc, last, nreq>>

\* lines 817-866: the rest of the handler fills the new structure in and
\* requests the master playlist; with it the registry is what
\* http_handler_play makes of the registry the handler found
PlayReturn ==
    /\ TaskStep
    /\ \/ task["control"].at = "return"
       \/ /\ task["control"].at = "evict"
          /\ PlayEvict(task["control"].id, task["control"].count) = {}
    /\ \E o \in http_handler_play(task["control"].pre, task["control"].precur,
                                  task["control"].req) :
          /\ airplay_video' = o.airplay_video
          /\ current_video' = o.current_video
          /\ proc' = o.proc
          /\ last' = [handler |-> "play", req |-> task["control"].req, out |-> o.out]
    /\ task' = [task EXCEPT !["control"] = TaskAtRest]
    /\ UNCHANGED <<heap, nreq>>

\* line 890 of http_handler_hls:
\* airplay_video = conn->raop->airplay_video[conn->raop->current_video]
HlsEnter(t, req) ==
    /\ TaskStep
    /\ task[t] = TaskAtRest
    /\ task' = [task EXCEPT ![t] =
                   [at |-> "deref", req |-> req, slot |-> current_video,
                    ptr |-> heap.at[current_video]]]
    /\ UNCHANGED <<airplay_video, current_video, proc, last, nreq, heap>>

\* what is read through a pointer to a structure that was freed: the process
\* is stopped, or the bytes that are there now are taken for a playlist
UseAfterFree ==
    { [proc |-> "crashed", out |-> [NoOutput EXCEPT !.status = 0]],
      [proc |-> "running", out |-> [NoOutput EXCEPT !.body = [kind |-> "freed"]]] }

\* lines 904-933 of http_handler_hls: get_master_playlist(airplay_video) or
\* get_media_playlist(airplay_video, ...) and the response made of it
HlsDeref(t) ==
    /\ TaskStep
    /\ task[t].at = "deref"
    /\ \E o \in IF task[t].ptr \in heap.freed
                THEN UseAfterFree
                ELSE http_handler_hls(airplay_video, task[t].slot, task[t].req) :
          /\ proc' = o.proc
          /\ last' = [handler |-> "hls", req |-> task[t].req, out |-> o.out]
    /\ task' = [task EXCEPT ![t] = TaskAtRest]
    /\ UNCHANGED <<airplay_video, current_video, nreq, heap>>

InitPlayTasks ==
    /\ conn_type = [c \in Conns |-> "CONTROL"]
    /\ airplay_video = [i \in Slots |-> NullVideo]
    /\ current_video = 0
    /\ proc = "running"
    /\ last = [handler |-> "none", req |-> [conn |-> 0], out |-> NoOutput]
    /\ nreq = MaxTaskRequests
    /\ distinct_plays = <<0>>
    /\ AuxInit

NextPlayTasks ==
    \/ \E req \in TaskActionRequests : TaskAction(req)
    \/ \E req \in TaskPlayRequests : TaskPlayKnown(req)
    \/ \E req \in TaskPlayRequests : PlayEnter(req)
    \/ PlayPurgeDestroy
    \/ PlayPurgeNull
    \/ PlayCreate
    \/ PlayEvictDestroy
    \/ PlayEvictNull
    \/ PlayReturn
    \/ \E t \in HlsTasks, req \in TaskHlsRequests : HlsEnter(t, req)
    \/ \E t \in HlsTasks : HlsDeref(t)

SpecPlayTasks == InitPlayTasks /\ [][NextPlayTasks]_vars

(***************************************************************************)
(* POST /reverse under tasks: the handler sets the type of its connection  *)
(* and counts the PTTH connections in two calls of httpd, and the handler  *)
(* of another connection can run between the two.                          *)
(***************************************************************************)
\* lines 398-409: the socket of the connection and the headers of the request
ReverseEnter(t) ==
    /\ TaskStep
    /\ task[t] = TaskAtRest
    /\ task' = [task EXCEPT ![t] = [at |-> "set"]]
    /\ UNCHANGED <<airplay_video, current_video, proc, last, nreq, heap>>

\* line 411: httpd_set_connection_type(conn->raop->httpd, conn, CONNECTION_TYPE_PTTH)
ReverseSetType(t) ==
    /\ proc = "running"
    /\ task[t].at = "set"
    /\ conn_type' = [conn_type EXCEPT ![ConnOf(t)] = "PTTH"]
    /\ task' = [task EXCEPT ![t] = [at |-> "count"]]
    /\ UNCHANGED <<airplay_video, current_video, proc, last, nreq, distinct_plays,
                   heap, pairing_vars, digest_vars, store_vars, mux_vars>>

\* lines 412-421: httpd_count_connection_type and the response made of it
ReverseCount(t) ==
    /\ proc = "running"
    /\ task[t].at = "count"
    /\ LET type_PTTH == httpd_count_connection_type(conn_type, "PTTH")
           out == IF type_PTTH = 1
                  THEN [NoOutput EXCEPT !.status = 101, !.upgrade = TRUE]
                  ELSE NoOutput
       IN  /\ last' = [handler |-> "reverse", req |-> [conn |-> ConnOf(t)], out |-> out]
           /\ task' = [task EXCEPT ![t] = [at |-> "done", status |-> out.status]]
    /\ UNCHANGED <<conn_type, airplay_video, current_video, proc, nreq, distinct_plays,
                   heap, pairing_vars, digest_vars, store_vars, mux_vars>>

InitReverseTasks ==
    /\ RaopIdle
    /\ proc = "running"
    /\ nreq = 0
    /\ AuxInit

NextReverseTasks ==
    \/ \E t \in ReverseTasks : ReverseEnter(t)
    \/ \E t \in ReverseTasks : ReverseSetType(t)
    \/ \E t \in ReverseTasks : ReverseCount(t)

SpecReverseTasks == InitReverseTasks /\ [][NextReverseTasks]_vars

(***************************************************************************)
(* the mux renderer: its functions called in any order                     *)
(***************************************************************************)
MaxMuxCalls == 5

\* a call of a function of mux_renderer.c that leaves m
MuxCall(op, arg, m, pushed) ==
    /\ proc = "running"
    /\ nreq > 0
    /\ nreq' = nreq - 1
    /\ mux' = [m EXCEPT !.last = [op |-> op, arg |-> arg, pushed |-> pushed,
                                  pre |-> mux.renderer]]
    /\ UNCHANGED <<raop_vars, proc, pairing_vars, digest_vars, store_vars, task_vars>>

MuxRendererInit == MuxCall("init", <<>>, mux_renderer_init(mux), FALSE)

MuxRendererChooseAudioCodec(audio_ct) ==
    MuxCall("choose_audio_codec", audio_ct,
            mux_renderer_choose_audio_codec(mux, audio_ct), FALSE)

MuxRendererChooseVideoCodec(is_h265, launch) ==
    MuxCall("choose_video_codec", is_h265,
            mux_renderer_choose_video_codec(mux, is_h265, launch), FALSE)

MuxRendererStart(launch) ==
    MuxCall("start", <<>>, mux_renderer_start(mux, launch), FALSE)

MuxRendererPushVideo(ntp_time) ==
    MuxCall("push_video", ntp_time, mux_renderer_push_video(mux, ntp_time).mux,
            mux_renderer_push_video(mux, ntp_time).pushed)

MuxRendererPushAudio(ntp_time) ==
    MuxCall("push_audio", ntp_time, mux_renderer_push_audio(mux, ntp_time).mux,
            mux_renderer_push_audio(mux, ntp_time).pushed)

MuxRendererStop == MuxCall("stop", <<>>, mux_renderer_stop(mux), FALSE)

MuxRendererDestroy == MuxCall("destroy", <<>>, mux_renderer_destroy(mux), FALSE)

InitMux ==
    /\ RaopIdle
    /\ proc = "running"
    /\ nreq = MaxMuxCalls
    /\ AuxInit

NextMux ==
    \/ MuxRendererInit
    \/ \E audio_ct \in AudioCodecs : MuxRendererChooseAudioCodec(audio_ct)
    \/ \E is_h265 \in BOOLEAN, launch \in {"ok", "error"} :
          MuxRendererChooseVideoCodec(is_h265, launch)
    \/ \E launch \in {"ok", "error"} : MuxRendererStart(launch)
    \/ \E ntp_time \in NtpTimes : MuxRendererPushVideo(ntp_time)
    \/ \E ntp_time \in NtpTimes : MuxRendererPushAudio(ntp_time)
    \/ MuxRendererStop
    \/ MuxRendererDestroy

SpecMux == InitMux /\ [][NextMux]_vars

(***************************************************************************)
(* properties                                                              *)
(***************************************************************************)
Live == {i \in Slots : airplay_video[i].live}

\* the master playlist is stored and every media URI of its table has had its
\* reply stored or recognised as a duplicate
TreeComplete(av) ==
    /\ av.master_playlist
    /\ \A k \in 1..av.num_uri : av.media_data_store[k].state # "empty"

\* this step handled a request
Handled(h) == nreq' # nreq /\ last'.handler = h

\* C1: the play callback is invoked for a session only after the master
\* playlist reply and a reply for every media URI of that master have been
\* processed for it; a /play for a known uuid never starts a session whose
\* playlist tree is incomplete.
C1_PlayOnlyAfterTreeFetched ==
    \A k \in 1..Len(last.out.play) : \A i \in Live :
        airplay_video[i].playback_uuid = last.out.play[k].uuid
            => TreeComplete(airplay_video[i])

\* C2 as claimed: no live session ever has the play callback invoked for it a
\* second time.
C2_PlayedAtMostOnce == \A i \in Live : airplay_video[i].plays <= 1

\* C2 as amended: a request invokes the play callback at most once, and only
\* a /play naming the uuid of a live session or an unhandledURLResponse /action
\* that finds the media-URI table of the current session exhausted does; such a
\* request sends no FCUP request and raises the play count of that session by
\* one, so a repeated /play or a further reply plays the session again.
C2_PlayOnlyOnExhaustionOrReuse ==
    [][ (nreq' # nreq) =>
          /\ Len(last'.out.play) <= 1
          /\ Len(last'.out.play) = 1 =>
               /\ last'.out.fcup = <<>>
               /\ \/ /\ last'.handler = "play"
                     /\ last'.out.play[1].uuid = last'.req.uuid
                     /\ \E i \in Live :
                           /\ airplay_video[i].playback_uuid = last'.req.uuid
                           /\ airplay_video'[i].plays = airplay_video[i].plays + 1
                  \/ /\ last'.handler = "action"
                     /\ last'.req.type = "unhandledURLResponse"
                     /\ current_video \in Live
                     /\ last'.out.play[1].uuid =
                            airplay_video[current_video].playback_uuid
                     /\ airplay_video'[current_video].next_media_uri_id
                            = airplay_video'[current_video].num_uri
                     /\ airplay_video'[current_video].plays
                            = airplay_video[current_video].plays + 1
          /\ Len(last'.out.play) = 0 =>
               \A i \in Live :
                   (airplay_video'[i].live /\ airplay_video'[i].playback_uuid
                                                = airplay_video[i].playback_uuid)
                       => airplay_video'[i].plays <= airplay_video[i].plays
      ]_vars

\* a session was played by its last FCUP reply and played again afterwards
C2_Witness ==
    \E i \in Live : airplay_video[i].plays >= 2 /\ TreeComplete(airplay_video[i])

\* C3: a POST /action whose X-Apple-Session-ID is missing or differs from the
\* apple_session_id of the current session is answered with 400 Bad Request
\* and has no other effect: nothing is stored, the next-media-URI index is
\* unchanged, no FCUP request is sent and the renderer is not called.
C3_BadSessionIdIs400 ==
    [][ ( /\ Handled("action")
          /\ \/ last'.req.session_id = NULL
             \/ /\ current_video \in Live
                /\ last'.req.session_id
                     # airplay_video[current_video].apple_session_id )
        => /\ last'.out.status = 400
           /\ airplay_video' = airplay_video
           /\ current_video' = current_video
           /\ last'.out.fcup = <<>>
           /\ last'.out.play = <<>>
      ]_vars

\* C4: a well-formed POST /play for a uuid not in the registry creates a
\* session, makes it current, stores the part of the Content-Location in front
\* of "/master.m3u8" as uri_prefix and the Start-Position-Seconds (0 when
\* absent), sends exactly one FCUP request for the whole Content-Location with
\* the X-Apple-Session-ID of the request, and does not call renderer.play.
C4_NewPlayRequestsMaster ==
    [][ ( /\ Handled("play")
          /\ WellFormed(last'.req)
          /\ \A i \in Live : airplay_video[i].playback_uuid # last'.req.uuid )
        => /\ proc' = "running"
           /\ last'.out.status = DEFAULT_STATUS
           /\ last'.out.created = {current_video'}
           /\ LET av == airplay_video'[current_video']
                  loc == last'.req.location
              IN  /\ av.live
                  /\ av.playback_uuid = last'.req.uuid
                  /\ av.apple_session_id = last'.req.session_id
                  /\ Len(av.uri_prefix) < Len(loc)
                  /\ SubSeq(loc, 1, Len(av.uri_prefix) + 1)
                        = av.uri_prefix \o <<MASTER>>
                  /\ \A k \in 1..Len(av.uri_prefix) : av.uri_prefix[k] # MASTER
                  /\ av.start_position_seconds
                        = IF last'.req.has_start THEN last'.req.start ELSE 0
                  /\ Len(last'.out.fcup) = 1
                  /\ last'.out.fcup[1].url = loc
                  /\ last'.out.fcup[1].session_id = last'.req.session_id
                  /\ last'.out.play = <<>>
      ]_vars

\* a new session was created from a Content-Location that goes on behind
\* "/master.m3u8", its master playlist requested
C4_Witness ==
    /\ last.handler = "play"
    /\ last.out.created # {}
    /\ Len(last.out.fcup) = 1
    /\ last.req.location = LocationQ
    /\ airplay_video[current_video].uri_prefix = <<"mlhls://host">>

\* C5: a POST /play whose uuid is that of a live session reuses the slot: no
\* session is created, purged or evicted, no FCUP request is sent, and
\* renderer.play is called once with the local prefix + "/master.m3u8" and
\* the start position stored when the session was created.
C5_ReusePlaysStoredSession ==
    [][ ( /\ Handled("play")
          /\ WellFormed(last'.req)
          /\ \E i \in Live : airplay_video[i].playback_uuid = last'.req.uuid )
        => /\ last'.out.created = {}
           /\ last'.out.destroyed = {}
           /\ \A i \in Slots :
                 /\ airplay_video'[i].live = airplay_video[i].live
                 /\ airplay_video'[i].playback_uuid = airplay_video[i].playback_uuid
           /\ last'.out.fcup = <<>>
           /\ Len(last'.out.play) = 1
           /\ last'.out.play[1].uri = LocalPrefix \o <<MASTER>>
           /\ \E i \in Live :
                 /\ airplay_video[i].playback_uuid = last'.req.uuid
                 /\ last'.out.play[1].start = airplay_video[i].start_stored
      ]_vars

\* C6: once the master playlist reply of a session lists N media URIs, every
\* processed unhandledURLResponse sends exactly one FCUP request, for the
\* URIs of the table in order 0, 1, ..., N-1 (the first on the master reply
\* itself), never for an index >= N, and renderer.play is called on the reply
\* that follows the request for index N-1 and not before.
C6_MediaRequestedInTableOrder ==
    [][ ( /\ Handled("action")
          /\ last'.req.type = "unhandledURLResponse"
          /\ proc' = "running"
          /\ last'.out.status = DEFAULT_STATUS
          /\ airplay_video'[current_video].master_playlist )
        => LET old == airplay_video[current_video]
               new == airplay_video'[current_video]
               N == new.num_uri
               k == IF last'.req.url_is_master THEN 0 ELSE old.next_media_uri_id
           IN  /\ k <= N
               /\ k < N =>
                    /\ Len(last'.out.fcup) = 1
                    /\ last'.out.fcup[1].url = <<"media", ToString(k), ".m3u8">>
                    /\ last'.out.fcup[1].session_id = old.apple_session_id
                    /\ last'.out.fcup[1].request_id = old.FCUP_RequestID + 1
                    /\ new.next_media_uri_id = k + 1
                    /\ last'.out.play = <<>>
               /\ k = N =>
                    /\ last'.out.fcup = <<>>
                    /\ Len(last'.out.play) = 1
                    /\ new.next_media_uri_id = N
      ]_vars

\* a master with two media URIs: two more FCUP requests, then play on the
\* reply to the second
C6_Witness ==
    /\ last.handler = "action"
    /\ Len(last.out.play) = 1
    /\ current_video \in Live
    /\ airplay_video[current_video].num_uri = 2
    /\ airplay_video[current_video].next_media_uri_id = 2
    /\ airplay_video[current_video].FCUP_RequestID = 3
    /\ airplay_video[current_video].plays = 1
    /\ TreeComplete(airplay_video[current_video])

\* C7: a POST /reverse that arrives while another connection already has type
\* PTTH is not upgraded and is answered with an error: not 101, but a 4xx.
C7_SecondReverseIsRejected ==
    ( /\ last.handler = "reverse"
      /\ \E c \in Conns : c # last.req.conn /\ conn_type[c] = "PTTH" )
    => /\ last.out.status # 101
       /\ last.out.status \in 400..499
       /\ ~last.out.upgrade

\* C8: at most one connection of the table has type PTTH.
C8_AtMostOnePTTH == httpd_count_connection_type(conn_type, "PTTH") <= 1

\* C9: after more than MAX_AIRPLAY_VIDEO well-formed /play requests with
\* pairwise distinct uuids, interleaved with /action replies, the registry
\* holds at most MAX_AIRPLAY_VIDEO sessions and the session of the most
\* recent /play is among them.
C9_MostRecentPlayIsPresent ==
    ( /\ distinct_plays # <<0>>
      /\ Len(distinct_plays) > MAX_AIRPLAY_VIDEO )
    => /\ Cardinality(Live) <= MAX_AIRPLAY_VIDEO
       /\ \E i \in Live :
             airplay_video[i].playback_uuid = distinct_plays[Len(distinct_plays)]

\* more than MAX_AIRPLAY_VIDEO distinct playbacks, the last of which found a
\* long playlist and a short one in the registry
C9_Witness ==
    /\ distinct_plays # <<0>>
    /\ Len(distinct_plays) > MAX_AIRPLAY_VIDEO
    /\ last.handler = "play"
    /\ last.out.destroyed # {}
    /\ Cardinality(Live) >= 2

\* C10: no two live sessions of the registry have the same playback_uuid.
C10_UuidsAreUnique ==
    \A i \in Live : \A j \in Live :
        airplay_video[i].playback_uuid = airplay_video[j].playback_uuid => i = j

\* a /play for a uuid of the registry was handled while two sessions were live
C10_Witness ==
    /\ last.handler = "play"
    /\ last.out.created = {}
    /\ Len(last.out.play) = 1
    /\ Cardinality(Live) >= 2

\* this step handled a /play that passed the checks of the header and the
\* uuid and found no live session with its uuid
NewPlay ==
    /\ Handled("play")
    /\ last'.req.session_id # NULL
    /\ last'.req.is_binary_plist
    /\ last'.req.has_uuid
    /\ \A i \in Live : airplay_video[i].playback_uuid # last'.req.uuid

\* the sessions that were long enough to be kept by the purge
Long ==
    {i \in Live : airplay_video[i].duration
                     >= MIN_STORED_AIRPLAY_VIDEO_DURATION_SECONDS}

\* the sessions this step destroyed
Gone ==
    {i \in Live : ~(/\ airplay_video'[i].live
                    /\ airplay_video'[i].born = airplay_video[i].born
                    /\ airplay_video'[i].playback_uuid = airplay_video[i].playback_uuid)}

\* C11: the cap eviction destroys exactly the slot (current+1) mod
\* MAX_AIRPLAY_VIDEO, current being the slot just given to the new session, and
\* only when the new /play makes all MAX_AIRPLAY_VIDEO slots occupied; it
\* never destroys the new session nor any other slot.
C11_CapEvictsNextSlot ==
    [][ NewPlay =>
          /\ proc' = "running"
          /\ last'.out.created = {current_video'}
          /\ airplay_video'[current_video'].live
          /\ airplay_video'[current_video'].playback_uuid = last'.req.uuid
          /\ current_video' \notin Long
          /\ Gone \cap Long =
                IF Cardinality(Long) + 1 = MAX_AIRPLAY_VIDEO
                THEN {(current_video' + 1) % MAX_AIRPLAY_VIDEO}
                ELSE {}
      ]_vars

\* the registry became full and the slot behind the new session was destroyed
C11_Witness ==
    /\ last.handler = "play"
    /\ last.out.created = {current_video}
    /\ last.out.destroyed = {(current_video + 1) % MAX_AIRPLAY_VIDEO}
    /\ Cardinality(Live) = MAX_AIRPLAY_VIDEO - 1

C13_ShortSessionsArePurged ==
    [][ NewPlay =>
          /\ (Live \ Long) \subseteq Gone
          /\ (Live \ Long) \subseteq last'.out.destroyed
          /\ current_video' \in Slots \ Long
          /\ \A j \in Slots \ Long : current_video' <= j
          /\ \A i \in Gone \cap Long :
                /\ i = (current_video' + 1) % MAX_AIRPLAY_VIDEO
                /\ Cardinality(Long) + 1 = MAX_AIRPLAY_VIDEO
      ]_vars

\* a short session was destroyed, its slot given to the new session, and a
\* session of exactly the minimum duration was kept
C13_Witness ==
    /\ last.handler = "play"
    /\ last.out.created = {current_video}
    /\ current_video \in last.out.destroyed
    /\ \E j \in Live : /\ j # current_video
                       /\ airplay_video[j].duration
                            = MIN_STORED_AIRPLAY_VIDEO_DURATION_SECONDS

\* C14: after a successful /play, whether it created a session or reused one
\* by its uuid, current_video is the slot of the session the /play addressed.
C14_CurrentIsAddressed ==
    ( /\ last.handler = "play"
      /\ proc = "running"
      /\ last.out.status = DEFAULT_STATUS )
    => /\ current_video \in Live
       /\ airplay_video[current_video].playback_uuid = last.req.uuid

\* C18: a /action of type playlistInsert from the current session is answered
\* and the server keeps running.
C18_PlaylistInsertDoesNotExit ==
    [][ ( /\ Handled("action")
          /\ last'.req.type = "playlistInsert"
          /\ last'.req.is_plist /\ last'.req.has_data
          /\ current_video \in Live
          /\ last'.req.session_id = airplay_video[current_video].apple_session_id )
        => /\ proc' = "running"
           /\ last'.out.status # 0
      ]_vars

\* C19: a /action answered with 400 neither marks the response Connection:
\* close nor calls conn_reset; a /play answered with 400 does both.
C19_FailedActionKeepsConnection ==
    /\ (last.handler = "action" /\ last.out.status = 400)
          => ~last.out.disconnect /\ ~last.out.conn_reset
    /\ (last.handler = "play" /\ last.out.status = 400)
          => last.out.disconnect /\ last.out.conn_reset

\* a /action of the current session failed after its type was read, and the
\* session is as it was
C19_Witness ==
    /\ last.handler = "action"
    /\ last.out.status = 400
    /\ current_video \in Live
    /\ last.req.session_id = airplay_video[current_video].apple_session_id
    /\ ~last.req.params_is_dict

C16_PlaybackInfoCases ==
    last.handler = "playback_info" =>
        /\ last.req.duration = 0 - 1 =>
              /\ last.out.disconnect
              /\ last.out.video_reset = <<TRUE>>
              /\ last.out.body = NoPlaylist
        /\ (last.req.duration # 0 - 1 /\ last.req.position = 0 - 1) =>
              /\ last.out.body = NoPlaylist
              /\ last.out.video_reset = <<>>
        /\ (last.req.duration # 0 - 1 /\ last.req.position # 0 - 1) =>
              /\ last.out.body # NoPlaylist
              /\ last.out.video_reset = <<>>

\* duration and position are both -1: the check of the duration wins
C16_Witness ==
    /\ last.handler = "playback_info"
    /\ last.req.duration = 0 - 1
    /\ last.req.position = 0 - 1
    /\ last.out.disconnect
    /\ last.out.video_reset = <<TRUE>>

\* C17: for a report with duration d # -1 and position p # -1 the plist has
\* exactly one loadedTimeRanges entry {start: p, duration: d - p} and exactly
\* one seekableTimeRanges entry {start: 0, duration: p}.
C17_TimeRanges ==
    ( /\ last.handler = "playback_info"
      /\ last.req.duration # 0 - 1
      /\ last.req.position # 0 - 1 )
    => /\ last.out.body.loadedTimeRanges
             = <<[start |-> last.req.position,
                  duration |-> last.req.duration - last.req.position]>>
       /\ last.out.body.seekableTimeRanges
             = <<[start |-> 0, duration |-> last.req.position]>>

\* d = 60, p = 10: {10, 50} and {0, 10}
C17_Witness ==
    /\ last.handler = "playback_info"
    /\ last.req.duration = 60
    /\ last.req.position = 10
    /\ last.out.body.loadedTimeRanges = <<[start |-> 10, duration |-> 50]>>
    /\ last.out.body.seekableTimeRanges = <<[start |-> 0, duration |-> 10]>>

\* the playlists stored on a session for a url of the HLS channel
StoredFor(av, url) ==
    IF url = <<MASTER>>
    THEN IF av.master_playlist THEN {av.master_text} ELSE {}
    ELSE LET hit == {k \in 1..av.num_uri :
                        /\ <<"media", ToString(k - 1), ".m3u8">> = url
                        /\ av.media_data_store[k].state # "empty"}
         IN  {av.media_data_store[j].playlist :
                 j \in {i \in 1..av.num_uri :
                           /\ av.media_data_store[i].playlist # NoPlaylist
                           /\ \E k \in hit : av.media_data_store[i].dur
                                                = av.media_data_store[k].dur}}

PairingCalled(op) == pair_last.op = op

\* C21: the ECDH shared secret of a pairing session is non-zero only while
\* the status is Handshake or Finished, and pairing_get_ecdh_secret_key,
\* called in status Initial or Setup, hands out no secret but the all-zero
\* one.
C21_SecretOnlyAfterHandshake ==
    /\ session.ecdh_secret # 0 => session.status \in {"HANDSHAKE", "FINISHED"}
    /\ (/\ PairingCalled("get_ecdh_secret_key")
        /\ pair_last.pre.status \in {"INITIAL", "SETUP"})
       => pair_last.out \in {<<>>, <<0>>}

\* the signature a call of pairing_session_finish was given is the client's
\* Ed25519 signature over (client key || server key), encrypted under the
\* keys of the shared secret behind the server's own signature
ClientSignatureVerifies(pre, signature) ==
    /\ signature.key = sha_final(SALT_KEY, pre.ecdh_secret)
    /\ signature.iv = sha_final(SALT_IV, pre.ecdh_secret)
    /\ signature.off = PAIRING_SIG_SIZE
    /\ signature.data.signer = pre.ed_theirs
    /\ signature.data.msg = <<pre.ecdh_theirs, x25519_key_get_raw(pre.ecdh_ours)>>

\* C22: pairing_session_finish makes the session Finished (and returns 0)
\* exactly when it is called in status Handshake with a client signature
\* that verifies over (client X25519 key || server X25519 key); a signature
\* that does not verify yields an error and the session does not become
\* Finished; in any other status the call returns an error and changes
\* nothing.
C22_FinishIffVerified ==
    PairingCalled("finish") =>
        LET pre == pair_last.pre
            verifies == ClientSignatureVerifies(pre, pair_last.arg)
        IN  /\ (pair_last.ret = 0 /\ session.status = "FINISHED")
                   <=> (pre.status = "HANDSHAKE" /\ verifies)
            /\ (pre.status = "HANDSHAKE" /\ ~verifies)
                   => (pair_last.ret < 0 /\ session.status # "FINISHED")
            /\ pre.status # "HANDSHAKE" => (pair_last.ret < 0 /\ session = pre)

C22_Witness ==
    /\ PairingCalled("finish")
    /\ pair_last.pre.status = "HANDSHAKE"
    /\ pair_last.ret = 0
    /\ session.status = "FINISHED"

\* C23: pair-verify step 1 is the transition Setup -> Handshake: a call of
\* pairing_session_handshake that puts the session into status Handshake
\* was made in status Setup, and no call takes a session from Initial to
\* Handshake in one step.
C23_HandshakeOnlyFromSetup ==
    /\ (/\ PairingCalled("handshake")
        /\ pair_last.ret = 0
        /\ session.status = "HANDSHAKE")
       => pair_last.pre.status = "SETUP"
    /\ ~(pair_last.pre.status = "INITIAL" /\ session.status = "HANDSHAKE")

\* srp_validate_proof was called on a session with SRP state and the proof
\* is not the one of the PIN the verifier was made from
ProofRejected ==
    /\ PairingCalled("srp_validate_proof")
    /\ pair_last.pre.srp # NoSrp
    /\ pair_last.arg.pin # pair_last.pre.srp.verifier.pin

\* C24: when the client's proof M1 does not verify, srp_validate_proof
\* returns an error, session->srp is NULL afterwards (so no session key is
\* recorded), and pair_setup and the stored client key are as before: a
\* session that was not paired stays unpaired.
C24_FailedProofDestroysSrp ==
    ProofRejected =>
        /\ pair_last.ret = 0 - 1
        /\ session.srp = NoSrp
        /\ session.srp_allocated = 0
        /\ session.pair_setup = pair_last.pre.pair_setup
        /\ session.client_pk = pair_last.pre.client_pk
        /\ (~pair_last.pre.pair_setup => ~session.pair_setup)

C24_Witness ==
    /\ ProofRejected
    /\ pair_last.ret = 0 - 1
    /\ ~session.pair_setup

\* C25: pair_setup becomes true, and a client key is stored, only by a call
\* of srp_confirm_pair_setup whose GCM authentication used the key of an
\* SRP session key that a successful srp_validate_proof had recorded in the
\* session: in whatever order the SRP functions are called, step 5 is not
\* reached without step 3 having succeeded.
C25_PairedOnlyAfterProof ==
    (\/ session.pair_setup /\ ~pair_last.pre.pair_setup
     \/ session.client_pk # pair_last.pre.client_pk
     \/ PairingCalled("srp_confirm_pair_setup") /\ pair_last.ret > 0)
    => /\ PairingCalled("srp_confirm_pair_setup")
       /\ pair_last.pre.srp # NoSrp
       /\ pair_last.pre.srp.session_key # ZeroSessionKey
       /\ pair_last.arg.epk.key = PairSetupKey(pair_last.pre.srp.session_key)

C27_DigestVerifiesResponse ==
    digest.result \notin {"idle", "pending"} =>
        (digest.result = "true"
            <=> digest.fields.response
                    = ClientResponse(digest.fields, HasQop(digest.order),
                                     digest.method, digest.password))
        /\ digest.result \in {"true", "false"}

(* ---- playlist store ---- *)
StoreCalled(op) == store_obs.last.op = op

EntriesFor(uri) ==
    {i \in 1..Len(store.media_data_) : store.media_data_[i].uri = uri}

\* C28: the store is idempotent: however often a (url, text) pair was handed
\* to add_media_data, media_data_ holds exactly one entry for the url, and
\* no entry for any other url; query_media_data(url) returns exactly the
\* text last inserted for url, and the empty result for a url that was not
\* inserted.
C28_StoreIdempotent ==
    /\ \A uri \in DOMAIN store_obs.inserted : Cardinality(EntriesFor(uri)) = 1
    /\ Len(store.media_data_) = Cardinality(DOMAIN store_obs.inserted)
    /\ StoreCalled("query_media_data") =>
          store_obs.last.ret =
              (IF store_obs.last.arg \in DOMAIN store_obs.inserted
               THEN store_obs.inserted[store_obs.last.arg].data
               ELSE EmptyString)

\* a query of a url whose text was inserted twice
C28_Witness ==
    /\ StoreCalled("query_media_data")
    /\ store_obs.last.arg \in DOMAIN store_obs.inserted
    /\ store_obs.inserted[store_obs.last.arg].times = 2
    /\ store_obs.last.ret = store_obs.inserted[store_obs.last.arg].data
    /\ store_obs.last.ret # EmptyString
    /\ Cardinality(EntriesFor(store_obs.last.arg)) = 1

\* C29: the FCUP_Response_RequestID values of the requests of one playback
\* session increase by one from request to request; the request issued by
\* request_media_data is the first of its session and carries 1; and the
\* counter goes back to 1 only in request_media_data and reset.
C29_RequestIdsIncrease ==
    LET log == store_obs.fcup
    IN  /\ \A i \in 1..(Len(log) - 1) : log[i + 1].id = log[i].id + 1
        /\ \A i \in 1..Len(log) :
              log[i].by = "request_media_data" => (i = 1 /\ log[i].id = 1)
        /\ store.request_id_ <= store_obs.last.pre.request_id_
              => \/ store.request_id_ = store_obs.last.pre.request_id_
                 \/ /\ store_obs.last.op \in {"request_media_data", "reset"}
                    /\ store_obs.fcup = <<>> => store.request_id_ = 1
        /\ (store_obs.last.op \in {"request_media_data", "reset"} /\ store_obs.fcup = <<>>)
              => store.request_id_ = 1

\* a session whose master request was followed by two more requests
C29_Witness ==
    /\ Len(store_obs.fcup) = 3
    /\ store_obs.fcup[1] = [id |-> 1, by |-> "request_media_data"]
    /\ store_obs.fcup[3] = [id |-> 3, by |-> "process_media_data"]
    /\ store.request_id_ = 4

\* C30: every read and every mutation of media_data_ is made by a thread
\* that holds mtx_, so that in no state a loopback thread searches the map
\* while the control thread assigns to it or clears it.
C30_MapAccessHoldsMutex ==
    /\ \A t \in DOMAIN pc : pc[t].at \in {"find", "assign", "clear"} => store.mtx_ = t
    /\ ~\E t \in DOMAIN pc \ {"control"} :
          pc[t].at = "find" /\ pc["control"].at \in {"assign", "clear"}

(* C31: the registry of playback sessions is protected against concurrent  *)
(* access: while /play on the control connection destroys a session or     *)
(* replaces current_video, no GET handler of the player's connection holds *)
(* a pointer to a structure that was destroyed and is about to use it.     *)
C31_RegistryProtected ==
    \A t \in HlsTasks :
        task[t].at = "deref" => task[t].ptr \notin heap.freed

\* the step-by-step /play ends in the registry http_handler_play computes
PlayStepsAgree ==
    (task["control"].at = "return"
        \/ (task["control"].at = "evict"
              /\ PlayEvict(task["control"].id, task["control"].count) = {}))
    => \A o \in http_handler_play(task["control"].pre, task["control"].precur,
                                  task["control"].req) :
          /\ o.current_video = current_video
          /\ \A i \in Slots : o.airplay_video[i].live = airplay_video[i].live

\* the distinct child URIs of a master playlist
ChildUris(data) ==
    {hlsparse_master(data)[i] : i \in 1..Len(hlsparse_master(data))}

\* C32: when the reply for a master playlist is processed, each distinct
\* child URI (media rendition or variant stream) is pushed onto the stack of
\* pending URIs at most once: with the stack empty before, what is pending
\* afterwards and the one URI that was requested are no more than the
\* distinct child URIs of the master.
C32_ChildUrisPushedOnce ==
    LET l == store_obs.last
    IN  (/\ l.op = "process_media_data"
         /\ proc = "running"
         /\ is_primary_data_uri(l.arg.uri)
         /\ l.pre.uri_stack_ = <<>>
         /\ ChildUris(l.arg.data) # {})
        => Len(store.uri_stack_) + 1 = Cardinality(ChildUris(l.arg.data))

\* C33: space is always available for a future playlist: when a /play
\* handler has returned, at least one slot of the registry is unused, and no
\* /play handler ends in the exit(1) of "no unused airplay_video structures
\* are available".
C33_SpaceAlwaysAvailable ==
    /\ last.handler = "play" => Cardinality(Live) <= MAX_AIRPLAY_VIDEO - 1
    /\ ~(last.handler = "play" /\ proc = "exited")

\* a /play that found MAX_AIRPLAY_VIDEO - 1 long playlists, added one and
\* destroyed one to make room
C33_Witness ==
    /\ last.handler = "play"
    /\ proc = "running"
    /\ last.out.created # {}
    /\ last.out.destroyed # {}
    /\ \A i \in last.out.destroyed : i \notin last.out.created
    /\ Cardinality(Live) = MAX_AIRPLAY_VIDEO - 1
    /\ Long # {}
    /\ Live \ Long = last.out.created

\* C34: every invocation of the play callback passes exactly
\* "http://localhost:<port>/master.m3u8", the second and later ones for the
\* same session included, and building the argument leaves the
\* local_uri_prefix stored in the session as "http://localhost:<port>".
C34_PlayUriIsLocalMaster ==
    /\ last.out.play # <<>> => last.out.play[1].uri = LocalPrefix \o <<MASTER>>
    /\ \A i \in Live : airplay_video[i].local_uri_prefix = LocalPrefix

\* C39: whenever http_handler_action stores a media playlist, the index it
\* stores under (next_media_uri_id - 1) is at least 0 and less than the
\* number of media URIs of the current session.
C39_StoreIndexInRange ==
    last.handler = "action" =>
        \A num \in last.out.store_idx :
            0 <= num /\ num < airplay_video[current_video].num_uri

\* the POST /reverse handlers that have returned, and those that answered 101
ReverseDone == {t \in ReverseTasks : task[t].at = "done"}
ReverseUpgraded == {t \in ReverseDone : task[t].status = 101}

\* C35: when POST /reverse requests are handled concurrently on several
\* connections and no PTTH connection existed before, exactly one of them
\* receives 101 Switching Protocols: once no handler is between its two
\* steps, the handlers that have returned are not all refused, and no two
\* of them are accepted.
C35_ExactlyOneReverseAccepted ==
    (/\ ReverseDone # {}
     /\ \A t \in ReverseTasks : task[t].at \in {"idle", "done"})
    => Cardinality(ReverseUpgraded) = 1

\* C36: in every order of calls of srp_new_user, srp_validate_proof and
\* srp_confirm_pair_setup on one session, srp_validate_proof and
\* srp_confirm_pair_setup only access SRP state that exists: neither is
\* called to work on a session->srp that was freed by a failed proof or by
\* an earlier srp_confirm_pair_setup, or that no srp_new_user has set up.
C36_SrpStateExists ==
    (PairingCalled("srp_validate_proof") \/ PairingCalled("srp_confirm_pair_setup"))
        => pair_last.pre.srp # NoSrp /\ proc = "running"

\* what pairing_session_get_signature sends for the session a call found,
\* and where the key stream stands behind it
OutboundSignature == pairing_session_get_signature(pair_last.pre).out[1]
OutboundStreamEnd == aes_ctr_stream_after(OutboundSignature, PAIRING_SIG_SIZE)

\* C37 as stated: in pair-verify step 2 the inbound signature is decrypted
\* with the key stream continued after the outbound message, the inbound
\* decrypt starting at stream offset 16.
C37_InboundStartsAtBlockOne ==
    (PairingCalled("finish") /\ pair_last.ret = 0)
        => /\ pair_last.arg.off = OutboundStreamEnd
           /\ pair_last.arg.off = AES_128_BLOCK_SIZE

\* C37, amended: in pair-verify step 2 the inbound signature is decrypted
\* with the key stream continued after the outbound message:
\* pairing_session_finish discards exactly the PAIRING_SIG_SIZE (64) bytes
\* of key stream that pairing_session_get_signature consumed, so a signature
\* is accepted only if it was encrypted from stream offset 64 on, under the
\* key and iv of the outbound signature.
C37_InboundContinuesStream ==
    (PairingCalled("finish") /\ pair_last.ret = 0)
        => /\ pair_last.arg.off = OutboundStreamEnd
           /\ pair_last.arg.off = PAIRING_SIG_SIZE
           /\ pair_last.arg.key = OutboundSignature.key
           /\ pair_last.arg.iv = OutboundSignature.iv
           /\ OutboundSignature.off = 0

\* a signature encrypted behind the server's is accepted, and the same
\* signature is among those a client can encrypt one block into the stream
C37_Witness ==
    /\ PairingCalled("finish")
    /\ pair_last.ret = 0
    /\ session.status = "FINISHED"
    /\ pair_last.arg.off = OutboundStreamEnd
    /\ [pair_last.arg EXCEPT !.off = AES_128_BLOCK_SIZE] \in ClientSignatures(pair_last.pre)

\* the functions of pair-verify that a Finished session refuses
VerifyCalls == {"handshake", "get_public_key", "get_signature", "finish"}

\* C38: once a pairing session is Finished, pairing_session_handshake,
\* pairing_session_get_public_key, pairing_session_get_signature and
\* pairing_session_finish return an error and leave the status, the peer
\* keys, the ephemeral key pair and the shared secret as they are; and a
\* session becomes Finished only by a pairing_session_finish that returns 0
\* on a session in Handshake.
C38_FinishedRefusesVerify ==
    /\ (pair_last.op \in VerifyCalls /\ pair_last.pre.status = "FINISHED")
          => /\ pair_last.ret < 0
             /\ pair_last.out = <<>>
             /\ session = pair_last.pre
    /\ (session.status = "FINISHED" /\ pair_last.pre.status # "FINISHED")
          => /\ PairingCalled("finish")
             /\ pair_last.ret = 0
             /\ pair_last.pre.status = "HANDSHAKE"

\* a second handshake, with other keys, on a session that is Finished
C38_Witness ==
    /\ PairingCalled("handshake")
    /\ pair_last.pre.status = "FINISHED"
    /\ pair_last.arg[1] # pair_last.pre.ecdh_theirs
    /\ pair_last.arg[2] # pair_last.pre.ed_theirs
    /\ pair_last.ret = 0 - 1
    /\ session.status = "FINISHED"
    /\ session.ecdh_secret = pair_last.pre.ecdh_secret

MuxRunning(r) == r # NoRenderer /\ r.pipeline # NoPipeline

\* C40: when mux_renderer_choose_audio_codec is called with a codec other
\* than the current one while a recording pipeline is running, the mux
\* renderer is restarted: a recording pipeline is running again when the
\* call returns, so that the frames pushed afterwards are not dropped.
C40_AudioCodecChangeRestarts ==
    (/\ mux.last.op = "choose_audio_codec"
     /\ MuxRunning(mux.last.pre)
     /\ mux.last.pre.audio_ct # mux.last.arg)
    => /\ MuxRunning(mux.renderer)
       /\ mux.renderer.pipeline.audio_ct = mux.last.arg

\* the code's behaviour in that case: the pipeline is stopped and the call
\* returns without one; the next frames are dropped
AudioCodecChangeStops ==
    (/\ mux.last.op = "choose_audio_codec"
     /\ MuxRunning(mux.last.pre)
     /\ mux.last.pre.audio_ct # mux.last.arg)
    => /\ ~MuxRunning(mux.renderer)
       /\ \A ntp_time \in NtpTimes :
             /\ ~mux_renderer_push_video(mux, ntp_time).pushed
             /\ ~mux_renderer_push_audio(mux, ntp_time).pushed

====
